---- MODULE Spec2Model ----
(***************************************************************************)
(* QuackFIX: the pipeline that turns a line of a FIX log into a typed row. *)
(*                                                                         *)
(* Bytes are their character codes, byte strings are sequences of codes.   *)
(* Several state machines share the module, each with its own variables   *)
(* and its own specifications:                                             *)
(*   SpecTok    FixTokenizer::Parse, one loop iteration per step           *)
(*   SpecFramer FixFileReader (OpenNextFile / ReadLine)                    *)
(*   SpecRow, SpecGroup, SpecCount, SpecTyped                              *)
(*              the row ReadFixScan assembles from one line                *)
(*   SpecScan   ReadFixScan called by the host until the first empty batch *)
(*   SpecStamp  the two timestamp coercions applied to one value           *)
(*   SpecBind, SpecCustom, SpecDelim                                       *)
(*              ReadFixBind and the rows under its custom columns and      *)
(*              delimiter                                                  *)
(*   SpecDict   the dictionary loader: LoadBase, then overlays             *)
(*   SpecClaim  workers claiming files under the mutex, step by step       *)
(*   SpecCancel SpecScan with the host's cancellation signal               *)
(*   SpecNested, SpecDeclared                                              *)
(*              groups scanned under a loaded dictionary; the group count  *)
(***************************************************************************)
EXTENDS Integers, Sequences, FiniteSets, TLC

VARIABLES
    ovf,        \* what the build does on signed int overflow (undefined behaviour)
    tk_input,   \* FixTokenizer::Parse: input buffer
    tk_delim,   \* FixTokenizer::Parse: delimiter
    tk,         \* FixTokenizer::Parse: position in the handler and its locals
    fr_files,   \* FixFileReader: the file list, each file as the chunks its reads deliver
    fr_index,   \* FixFileReader: the shared next-file index
    fr,         \* FixFileReader: the reader object
    fr_out,     \* FixFileReader: per file, the lines ReadLine has returned
    fr_eof,     \* FixFileReader: the files on which ReadLine has returned false
    fr_pc,      \* FixFileReader: "opening" while OpenNextFile waits for the lock
    rw_line,    \* row assembly: the line
    rw_bind,    \* row assembly: ReadFixBindData
    rw_gstates, \* row assembly: the ReadFixGlobalState of two scans of the line
    rw_rows,    \* row assembly: the row of each of the two scans, <<>> before
    sc_bind,    \* scan: ReadFixBindData, files as the chunks their reads deliver
    sc_gstate,  \* scan: ReadFixGlobalState
    sc_lstate,  \* scan: ReadFixLocalState
    sc_rows,    \* scan: the rows of all batches so far, each with file and line number
    sc_calls,   \* scan: the number of ReadFixScan calls so far
    sc_done,    \* scan: the host has seen an empty batch
    cv_input,   \* timestamp coercion: the value
    cv_conv,    \* timestamp coercion: what ConvertToTimestamp returned, <<>> before
    cv_field,   \* timestamp coercion: what set_timestamp_field wrote, <<>> before
    bd_input,   \* bind: the arguments of read_fix and the dictionary document
    bd_out,     \* bind: what ReadFixBind returned or threw, <<>> before
    dl_pairs,   \* delimiter choice: the (tag, value) pairs of the message
    dl_delims,  \* delimiter choice: the two delimiter options
    dl_out,     \* delimiter choice: per option, <<>> or the bind and the parsed message
    dc_base,    \* dictionary: the base document
    dc_overlays,\* dictionary: the overlay documents, in the order they are applied
    dc_dict,    \* dictionary: <<>> before LoadBase, then <<the FixDictionary>>
    dc_applied, \* dictionary: the number of overlays applied
    sc_output,  \* scan: the batch of the last ReadFixScan call
    sc_interrupted, \* scan: the host's cancellation signal
    sc_pc,      \* scan: "read" while a call of ReadFixScan is at its read loop
    cl_files,   \* file claim: the file list the workers share
    cl_index,   \* file claim: the shared next-file index
    cl_mutex,   \* file claim: the worker that holds the mutex, 0 when free
    cl_workers, \* file claim: per worker, its position in the claim and its locals
    cl_claims   \* file claim: the claims made so far, <<worker, file>> in order

tokVars  == <<tk_input, tk_delim, tk>>
frVars   == <<fr_files, fr_index, fr, fr_out, fr_eof, fr_pc>>
rowVars  == <<rw_line, rw_bind, rw_gstates, rw_rows>>
scanVars == <<sc_bind, sc_gstate, sc_lstate, sc_rows, sc_calls, sc_done, sc_output,
             sc_interrupted, sc_pc>>
convVars == <<cv_input, cv_conv, cv_field>>
bindVars == <<bd_input, bd_out>>
dlVars   == <<dl_pairs, dl_delims, dl_out>>
dictVars == <<dc_base, dc_overlays, dc_dict, dc_applied>>
claimVars == <<cl_files, cl_index, cl_mutex, cl_workers, cl_claims>>
sideVars == <<convVars, bindVars, dlVars, dictVars, claimVars>>
vars     == <<ovf, tokVars, frVars, rowVars, scanVars, sideVars>>

----------------------------------------------------------------------------
(* Bytes *)

SOH   == 1
TAB   == 9
LF    == 10
CR    == 13
SPACE == 32
PLUS  == 43
MINUS == 45
DOT   == 46
CH0   == 48
CH9   == 57
EQ    == 61
PIPE  == 124

\* Character codes of the printable characters the inputs are written with.
Ascii ==
    [c \in {"0","1","2","3","4","5","6","7","8","9"} |->
        CASE c = "0" -> 48 [] c = "1" -> 49 [] c = "2" -> 50 [] c = "3" -> 51
          [] c = "4" -> 52 [] c = "5" -> 53 [] c = "6" -> 54 [] c = "7" -> 55
          [] c = "8" -> 56 [] c = "9" -> 57]
    @@ ("=" :> 61) @@ ("|" :> 124) @@ ("." :> 46) @@ ("-" :> 45) @@ (":" :> 58)
    @@ ("+" :> 43) @@ (" " :> 32) @@ ("\n" :> 10) @@ ("\r" :> 13)
    @@ ("A" :> 65) @@ ("B" :> 66) @@ ("D" :> 68) @@ ("P" :> 80) @@ ("S" :> 83)
    @@ ("a" :> 97) @@ ("b" :> 98) @@ ("e" :> 101) @@ ("x" :> 120)
    @@ ("\\" :> 92) @@ ("^" :> 94) @@ ("," :> 44)

\* The byte string written as a tuple of one-character strings.
B(chars) == [i \in 1..Len(chars) |-> Ascii[chars[i]]]

\* All byte strings over alphabet S of length at most n.
BSeq(S, n) == UNION {[1..k -> S] : k \in 0..n}

Min(S) == CHOOSE x \in S : \A y \in S : x <= y

Max(S) == CHOOSE x \in S : \A y \in S : x >= y

IsDigit(b) == b >= CH0 /\ b <= CH9

\* s[from .. from+n-1] with 0-based from, as std::string(ptr + from, n).
Slice(s, from, n) == SubSeq(s, from + 1, from + n)

\* 0-based index of the first b in s at or after from, Len(s) when there is none.
FindByte(s, from, b) ==
    LET hits == {i \in from..(Len(s) - 1) : s[i + 1] = b}
    IN  IF hits = {} THEN Len(s) ELSE Min(hits)

\* A digit run without its leading zeros ("0" for a run of zeros).
StripZeros(digits) ==
    IF \E j \in 1..Len(digits) - 1 : digits[j] # CH0
    THEN SubSeq(digits,
                CHOOSE j \in 1..Len(digits) - 1 :
                    digits[j] # CH0 /\ \A i \in 1..j - 1 : digits[i] = CH0,
                Len(digits))
    ELSE SubSeq(digits, Len(digits), Len(digits))

----------------------------------------------------------------------------
(* fix_hot_tags.hpp *)

MSG_TYPE       == 35
SENDER_COMP_ID == 49
TARGET_COMP_ID == 56
MSG_SEQ_NUM    == 34
SENDING_TIME   == 52
CL_ORD_ID      == 11
ORDER_ID       == 37
EXEC_ID        == 17
SYMBOL         == 55
SIDE           == 54
EXEC_TYPE      == 150
ORD_STATUS     == 39
PRICE          == 44
ORDER_QTY      == 38
CUM_QTY        == 14
LEAVES_QTY     == 151
LAST_PX        == 31
LAST_QTY       == 32
TEXT           == 58

ALL_TAGS == <<MSG_TYPE, SENDER_COMP_ID, TARGET_COMP_ID, MSG_SEQ_NUM, SENDING_TIME,
              CL_ORD_ID, ORDER_ID, EXEC_ID, SYMBOL, SIDE, EXEC_TYPE, ORD_STATUS,
              PRICE, ORDER_QTY, CUM_QTY, LEAVES_QTY, LAST_PX, LAST_QTY, TEXT>>

NUM_HOT_TAGS == 19

HotTags == {ALL_TAGS[i] : i \in 1..NUM_HOT_TAGS}

IsHotTag(tag) == tag \in HotTags

----------------------------------------------------------------------------
(* fix_message.hpp: ParsedFixMessage *)

\* A (pointer, length) slice: ptr is FALSE for nullptr.
NullSlot == [ptr |-> FALSE, val |-> <<>>]

SlotOf(value) == [ptr |-> TRUE, val |-> value]

\* ParsedFixMessage::clear().  hot[t] is the slot of hot tag t, other_tags the
\* unordered_map of the non-hot tags, all_tags_ordered the (tag, value) list.
ClearedMsg ==
    [hot              |-> [t \in HotTags |-> NullSlot],
     other_tags       |-> [t \in {} |-> <<>>],
     all_tags_ordered |-> <<>>,
     raw_message      |-> NullSlot,
     parse_error      |-> ""]

\* The test every consumer applies to a slot: ptr != nullptr && len > 0.
SlotSet(slot) == slot.ptr /\ Len(slot.val) > 0

----------------------------------------------------------------------------
(* fix_tokenizer.cpp *)

\* int is 32 bits wide.  An int is kept as two 16-bit halves [hi, lo] of its
\* two's-complement pattern, so that no intermediate result leaves the range
\* of the checker's own integers.
HALF == 2 ^ 16

IntOfHalves(h) ==
    IF h.hi >= HALF \div 2 THEN (h.hi - HALF) * HALF + h.lo ELSE h.hi * HALF + h.lo

IsNumeric(str) ==
    /\ Len(str) # 0
    /\ \A i \in 1..Len(str) : IsDigit(str[i])

\* The loop tag_out = tag_out * 10 + (tag_str[i] - '0') over int.  acc is
\* [hi, lo, trapped].  A step whose exact result exceeds INT_MAX is undefined
\* behaviour: the build either wraps (the bit pattern modulo 2^32) or traps.
RECURSIVE TagDigits(_, _, _, _)
TagDigits(tag_str, i, acc, of) ==
    IF i > Len(tag_str) \/ acc.trapped THEN acc
    ELSE LET lo10  == acc.lo * 10 + (tag_str[i] - CH0)
             hi10  == acc.hi * 10 + lo10 \div HALF
             over  == acc.hi < HALF \div 2 /\ hi10 >= HALF \div 2
         IN  IF over /\ of = "trap"
             THEN [acc EXCEPT !.trapped = TRUE]
             ELSE TagDigits(tag_str, i + 1,
                            [hi |-> hi10 % HALF, lo |-> lo10 % HALF, trapped |-> FALSE], of)

\* Returns [ok, tag, trapped].
ExtractTagNumber(tag_str, of) ==
    IF ~IsNumeric(tag_str) THEN [ok |-> FALSE, tag |-> 0, trapped |-> FALSE]
    ELSE LET r == TagDigits(tag_str, 1, [hi |-> 0, lo |-> 0, trapped |-> FALSE], of)
         IN  [ok |-> ~r.trapped, tag |-> IntOfHalves(r), trapped |-> r.trapped]

\* other_tags[tag] = value
MapPut(m, tag, value) ==
    [t \in (DOMAIN m) \cup {tag} |-> IF t = tag THEN value ELSE m[t]]

\* The switch fallen through to its default for every tag.
StoreTagInMap(msg, tag, value) ==
    [msg EXCEPT !.other_tags = MapPut(msg.other_tags, tag, value)]

\* The switch of ParseTag: a hot tag fills its slot, any other tag goes to the map.
StoreTag(msg, tag, value) ==
    IF IsHotTag(tag)
    THEN [msg EXCEPT !.hot[tag] = SlotOf(value)]
    ELSE [msg EXCEPT !.other_tags = MapPut(msg.other_tags, tag, value)]

\* Returns [ok, msg, trapped].
ParseTag(tag_str, value, msg, of) ==
    LET t == ExtractTagNumber(tag_str, of)
    IN  IF ~t.ok THEN [ok |-> FALSE, msg |-> msg, trapped |-> t.trapped]
        ELSE [ok      |-> TRUE,
              trapped |-> FALSE,
              msg     |-> StoreTag([msg EXCEPT !.all_tags_ordered =
                                        Append(@, <<t.tag, value>>)],
                                   t.tag, value)]

\* The locals of Parse and where it stands: pc is "start" before the call,
\* "scan" inside the while loop, "done" after a return, "trapped" when the
\* build trapped on overflow.
TokStart == [pc |-> "start", pos |-> 0, tag_count |-> 0, msg |-> ClearedMsg,
             success |-> FALSE]

\* Parse up to the while loop: clear, remember the raw buffer, refuse an empty input.
ParseEnter(input) ==
    LET m == [ClearedMsg EXCEPT !.raw_message = SlotOf(input)]
    IN  IF Len(input) = 0
        THEN [pc |-> "done", pos |-> 0, tag_count |-> 0, success |-> FALSE,
              msg |-> [m EXCEPT !.parse_error = "Empty message"]]
        ELSE [pc |-> "scan", pos |-> 0, tag_count |-> 0, success |-> FALSE, msg |-> m]

\* One iteration of while (pos < input_len).
ParseSegment(input, delimiter, st, of) ==
    LET next_delim == FindByte(input, st.pos, delimiter)
        pair_len   == next_delim - st.pos
        eq_pos     == FindByte(Slice(input, st.pos, pair_len), 0, EQ)
        tag_str    == Slice(input, st.pos, eq_pos)
        value      == Slice(input, st.pos + eq_pos + 1, pair_len - eq_pos - 1)
        pt         == ParseTag(tag_str, value, st.msg, of)
    IN  IF pair_len > 0
        THEN IF eq_pos >= pair_len
             THEN [st EXCEPT !.pc = "done", !.success = FALSE,
                             !.msg.parse_error = "Invalid tag format (missing '=')"]
             ELSE IF pt.trapped
                  THEN [st EXCEPT !.pc = "trapped"]
                  ELSE IF ~pt.ok
                       THEN [st EXCEPT !.pc = "done", !.success = FALSE,
                                       !.msg.parse_error = "Failed to parse tag"]
                       ELSE [st EXCEPT !.msg = pt.msg, !.tag_count = @ + 1,
                                       !.pos = next_delim + 1]
        ELSE [st EXCEPT !.pos = next_delim + 1]

\* Parse after the while loop, had it not asked for tag 35.
ParseLeaveAnyTags(st) ==
    IF st.tag_count = 0
    THEN [st EXCEPT !.pc = "done", !.success = FALSE,
                    !.msg.parse_error = "No valid tags found"]
    ELSE [st EXCEPT !.pc = "done", !.success = TRUE]

\* Parse after the while loop.
ParseLeave(st) ==
    IF st.tag_count = 0
    THEN [st EXCEPT !.pc = "done", !.success = FALSE,
                    !.msg.parse_error = "No valid tags found"]
    ELSE IF ~SlotSet(st.msg.hot[MSG_TYPE])
         THEN [st EXCEPT !.pc = "done", !.success = FALSE,
                         !.msg.parse_error = "Missing required tag 35 (MsgType)"]
         ELSE [st EXCEPT !.pc = "done", !.success = TRUE]

\* The next step of Parse from st.
ParseStep(input, delimiter, st, of) ==
    IF st.pc = "start" THEN ParseEnter(input)
    ELSE IF st.pos < Len(input) THEN ParseSegment(input, delimiter, st, of)
    ELSE ParseLeave(st)

RECURSIVE ParseRun(_, _, _, _)
ParseRun(input, delimiter, st, of) ==
    IF st.pc \in {"done", "trapped"} THEN st
    ELSE ParseRun(input, delimiter, ParseStep(input, delimiter, st, of), of)

\* FixTokenizer::Parse as one call: the state it returns in.
Parse(input, delimiter, of) == ParseRun(input, delimiter, TokStart, of)

----------------------------------------------------------------------------
(* fix_file_reader.cpp, and the same read loop inside ReadFixScan *)

\* The size of one read; 8192 in the source, scaled down here.
BUFFER_SIZE == 2

\* string::resize(n): truncate, or pad with zero bytes.
Resize(buf, n) == [i \in 1..n |-> IF i <= Len(buf) THEN buf[i] ELSE 0]

\* A closed reader.  open stands for file_handle_ != nullptr, src for what the
\* open handle has not delivered yet: a list of chunks, one per Read, each of
\* 1..BUFFER_SIZE bytes; Read returns 0 bytes once the list is empty.
ClosedReader ==
    [open |-> FALSE, current_file |-> 0, line_number |-> 0, buffer |-> <<>>,
     buffer_offset |-> 0, file_done |-> FALSE, src |-> <<>>]

\* The read loop, had it started the line anew at every refill of the buffer.
RECURSIVE ReadLoopPerRead(_, _)
ReadLoopPerRead(rd, line) ==
    IF rd.file_done THEN [found |-> FALSE, line |-> line, rd |-> rd]
    ELSE IF rd.buffer_offset >= Len(rd.buffer) /\ rd.src = <<>>
         THEN [found |-> line # <<>>, line |-> line,
               rd    |-> [rd EXCEPT !.file_done = TRUE,
                                    !.buffer = Resize(rd.buffer, BUFFER_SIZE)]]
    ELSE LET refill == rd.buffer_offset >= Len(rd.buffer)
             r1 == IF refill
                   THEN [rd EXCEPT !.buffer = Head(rd.src), !.buffer_offset = 0,
                                   !.src = Tail(rd.src)]
                   ELSE rd
             kept == IF refill THEN <<>> ELSE line
             newline_pos == FindByte(r1.buffer, r1.buffer_offset, LF)
         IN  IF newline_pos < Len(r1.buffer)
             THEN [found |-> TRUE,
                   line  |-> kept \o Slice(r1.buffer, r1.buffer_offset,
                                           newline_pos - r1.buffer_offset),
                   rd    |-> [r1 EXCEPT !.buffer_offset = newline_pos + 1]]
             ELSE ReadLoopPerRead([r1 EXCEPT !.buffer_offset = Len(r1.buffer)],
                                  kept \o Slice(r1.buffer, r1.buffer_offset,
                                                Len(r1.buffer) - r1.buffer_offset))

\* while (!file_done) { refill the buffer when it is used up; take the bytes
\* up to the next '\n', or all that is left; }  Returns [found, line, rd].
RECURSIVE ReadLoop(_, _)
ReadLoop(rd, line) ==
    IF rd.file_done THEN [found |-> FALSE, line |-> line, rd |-> rd]
    ELSE IF rd.buffer_offset >= Len(rd.buffer) /\ rd.src = <<>>
         THEN [found |-> line # <<>>, line |-> line,
               rd    |-> [rd EXCEPT !.file_done = TRUE,
                                    !.buffer = Resize(rd.buffer, BUFFER_SIZE)]]
    ELSE LET r1 == IF rd.buffer_offset >= Len(rd.buffer)
                   THEN [rd EXCEPT !.buffer = Head(rd.src), !.buffer_offset = 0,
                                   !.src = Tail(rd.src)]
                   ELSE rd
             newline_pos == FindByte(r1.buffer, r1.buffer_offset, LF)
         IN  IF newline_pos < Len(r1.buffer)
             THEN [found |-> TRUE,
                   line  |-> line \o Slice(r1.buffer, r1.buffer_offset,
                                           newline_pos - r1.buffer_offset),
                   rd    |-> [r1 EXCEPT !.buffer_offset = newline_pos + 1]]
             ELSE ReadLoop([r1 EXCEPT !.buffer_offset = Len(r1.buffer)],
                           line \o Slice(r1.buffer, r1.buffer_offset,
                                         Len(r1.buffer) - r1.buffer_offset))

\* The line left as read, had the '\r' been kept.
StripCRNever(line) == line

\* if (!line.empty() && line.back() == '\r') line.pop_back();
StripCR(line) ==
    IF line # <<>> /\ line[Len(line)] = CR THEN SubSeq(line, 1, Len(line) - 1) ELSE line

\* FixFileReader::ReadLine.  Returns [ret, line, rd].
ReadLine(rd) ==
    IF ~rd.open THEN [ret |-> FALSE, line |-> <<>>, rd |-> rd]
    ELSE LET r == ReadLoop(rd, <<>>)
         IN  IF ~r.found THEN [ret |-> FALSE, line |-> <<>>, rd |-> r.rd]
             ELSE [ret  |-> TRUE,
                   line |-> StripCR(r.line),
                   rd   |-> [r.rd EXCEPT !.line_number = @ + 1]]

\* FixFileReader::Close
Close(rd) == ClosedReader

\* FixFileReader::OpenNextFile under the lock.  Returns [ret, rd, file_index].
OpenNextFile(rd, files, file_index) ==
    IF file_index >= Len(files)
    THEN [ret |-> FALSE, rd |-> Close(rd), file_index |-> file_index]
    ELSE [ret        |-> TRUE,
          file_index |-> file_index + 1,
          rd         |-> [open |-> TRUE, current_file |-> file_index + 1,
                          line_number |-> 0, buffer |-> <<>>, buffer_offset |-> 0,
                          file_done |-> FALSE, src |-> files[file_index + 1]]]

FrIdle ==
    /\ fr_files = <<>> /\ fr_index = 0 /\ fr = ClosedReader
    /\ fr_out = <<>> /\ fr_eof = {} /\ fr_pc = "idle"

RowIdle ==
    /\ rw_line = <<>> /\ rw_bind = <<>> /\ rw_gstates = <<>> /\ rw_rows = <<>>

ScanIdle ==
    /\ sc_bind = <<>> /\ sc_gstate = <<>> /\ sc_lstate = ClosedReader
    /\ sc_rows = <<>> /\ sc_calls = 0 /\ sc_done = FALSE
    /\ sc_output = <<>> /\ sc_interrupted = FALSE /\ sc_pc = "idle"

ConvIdle == cv_input = <<>> /\ cv_conv = <<>> /\ cv_field = <<>>

BindIdle == bd_input = <<>> /\ bd_out = <<>>

DelimIdle == dl_pairs = <<>> /\ dl_delims = <<>> /\ dl_out = <<>>

DictIdle == dc_base = <<>> /\ dc_overlays = <<>> /\ dc_dict = <<>> /\ dc_applied = 0

ClaimIdle ==
    /\ cl_files = <<>> /\ cl_index = 0 /\ cl_mutex = 0
    /\ cl_workers = <<>> /\ cl_claims = <<>>

SideIdle == ConvIdle /\ BindIdle /\ DelimIdle /\ DictIdle /\ ClaimIdle

----------------------------------------------------------------------------
(* read_fix_function.cpp: the values ReadFixScan writes and its coercions *)

NullValue == [type |-> "NULL"]

Varchar(bytes) == [type |-> "VARCHAR", val |-> bytes]

\* set_string_field
StringField(slot) == IF SlotSet(slot) THEN Varchar(slot.val) ELSE NullValue

\* isspace in the "C" locale.
IsSpace(b) == b = SPACE \/ (b >= TAB /\ b <= CR)

SpaceBytes == {b \in 0..127 : IsSpace(b)}

DigitBytes == CH0..CH9

\* 0-based index of the first byte of s at or after from that is not in set.
SkipWhile(s, from, set) ==
    IF \E j \in from + 1..Len(s) : s[j] \notin set
    THEN (CHOOSE j \in from + 1..Len(s) :
              s[j] \notin set /\ \A i \in from + 1..j - 1 : s[i] \in set) - 1
    ELSE IF from < Len(s) THEN Len(s) ELSE from

\* The optional sign at the 0-based index p.  Returns [neg, at]: the sign and
\* the index after it.
SignAt(s, p) ==
    IF p < Len(s) /\ s[p + 1] = MINUS THEN [neg |-> TRUE, at |-> p + 1]
    ELSE IF p < Len(s) /\ s[p + 1] = PLUS THEN [neg |-> FALSE, at |-> p + 1]
    ELSE [neg |-> FALSE, at |-> p]

\* strtol/strtoll/strtod start alike: white space, then an optional sign.
SignAfterSpace(s) == SignAt(s, SkipWhile(s, 0, SpaceBytes))

\* a < b for two digit runs without leading zeros.
RECURSIVE DigitsLess(_, _)
DigitsLess(a, b) ==
    IF Len(a) # Len(b) THEN Len(a) < Len(b)
    ELSE IF a = <<>> THEN FALSE
    ELSE IF a[1] # b[1] THEN a[1] < b[1]
    ELSE DigitsLess(Tail(a), Tail(b))

INT64_MAX_DIGITS == B(<<"9","2","2","3","3","7","2","0","3","6","8","5","4","7","7","5","8","0","7">>)
INT64_MIN_DIGITS == B(<<"9","2","2","3","3","7","2","0","3","6","8","5","4","7","7","5","8","0","8">>)

\* std::stoll after the white space and the sign sg, followed by the test
\* pos == str.length().
Int64After(str, sg) ==
    LET stop == SkipWhile(str, sg.at, DigitBytes)
        mag  == StripZeros(Slice(str, sg.at, stop - sg.at))
    IN  IF stop = sg.at THEN [ok |-> FALSE, neg |-> FALSE, mag |-> <<>>]      \* invalid_argument
        ELSE IF DigitsLess(IF sg.neg THEN INT64_MIN_DIGITS ELSE INT64_MAX_DIGITS, mag)
             THEN [ok |-> FALSE, neg |-> FALSE, mag |-> <<>>]                 \* out_of_range
        ELSE IF stop # Len(str) THEN [ok |-> FALSE, neg |-> FALSE, mag |-> <<>>] \* extra characters
        ELSE [ok |-> TRUE, neg |-> sg.neg /\ mag # <<CH0>>, mag |-> mag]

\* std::stoll(str, &pos) followed by the test pos == str.length().  An int64
\* is kept as its sign and decimal digits.  Returns [ok, neg, mag].
ParseInt64(str) == Int64After(str, SignAfterSpace(str))

\* The text of a diagnostic is a sequence of tokens: the fixed strings of the
\* source as strings, the bytes of the offending literal as bytes.
InvalidField(field_name, literal) == <<"Invalid ", field_name, ": '">> \o literal \o <<"'">>

\* The try block of set_int64_field once std::stoll has returned or thrown r:
\* the value stored, or the error the catch block records.
Int64Stored(r, field_name, literal) ==
    IF r.ok THEN [value |-> [type |-> "BIGINT", neg |-> r.neg, mag |-> r.mag], errors |-> <<>>]
    ELSE [value |-> NullValue, errors |-> <<InvalidField(field_name, literal)>>]

\* set_int64_field.  Returns [value, errors].
Int64Field(slot, field_name) ==
    IF SlotSet(slot) THEN Int64Stored(ParseInt64(slot.val), field_name, slot.val)
    ELSE [value |-> NullValue, errors |-> <<>>]

\* The value of a short digit run (at most nine digits are ever passed).
RECURSIVE SmallNumber(_)
SmallNumber(digits) ==
    IF digits = <<>> THEN 0
    ELSE SmallNumber(SubSeq(digits, 1, Len(digits) - 1)) * 10 + (digits[Len(digits)] - CH0)

\* std::stod is strtod of the C library (glibc, "C" locale) followed by two
\* tests: nothing converted is invalid_argument, errno == ERANGE is
\* out_of_range.  The limits of the binary64 format:
DBL_MANT_DIG   == 53
DBL_MAX_EXP    == 1024
DBL_MIN_EXP    == -1021
DBL_MAX_10_EXP == 308
DBL_MIN_10_EXP == -307
DBL_DIG        == 15

\* TOLOWER
LowerOf(b) == IF b >= 65 /\ b <= 90 THEN b + 32 ELSE b

\* The byte at the 0-based index p; the string ends in a zero byte.
ByteAt(s, p) == IF p < Len(s) THEN s[p + 1] ELSE 0

HexDigitBytes == DigitBytes \cup 65..70 \cup 97..102

\* The bytes of the n-char-sequence of "nan(...)": letters, digits and '_'.
NanCharBytes == DigitBytes \cup 65..90 \cup 97..122 \cup {95}

\* The bytes of s from the 0-based index at are, in either case, the lower
\* case bytes of word.
HasWordAt(s, at, word) ==
    /\ at + Len(word) <= Len(s)
    /\ \A j \in 1..Len(word) : LowerOf(s[at + j]) = word[j]

\* A run of digits of the given set with an optional '.' from the 0-based
\* index at.  Returns [kind, intPart, fraPart, fracEnd].
DigitRuns(str, at, set, kind) ==
    LET intEnd  == SkipWhile(str, at, set)
        hasDot  == ByteAt(str, intEnd) = DOT
        fracEnd == IF hasDot THEN SkipWhile(str, intEnd + 1, set) ELSE intEnd
    IN  [kind    |-> kind,
         intPart |-> Slice(str, at, intEnd - at),
         fraPart |-> IF hasDot THEN Slice(str, intEnd + 1, fracEnd - intEnd - 1) ELSE <<>>,
         fracEnd |-> fracEnd]

\* What follows the sign, without the exponent, from the 0-based index at.
\* A subject starts with a digit or with '.' and a digit; "0x" or "0X" makes
\* it hexadecimal when a hexadecimal digit, or '.' and one, follows, and is
\* the number 0 followed by 'x' otherwise.  Anything else is "inf",
\* "infinity", "nan" or "nan(n-char-sequence)" in either case, or no number.
\* Returns [kind, intPart, fraPart, fracEnd]; kind is "dec", "hex", "inf",
\* "nan" or "none", fracEnd the index after what was read.
Mantissa(str, at) ==
    IF \/ ByteAt(str, at) \in DigitBytes
       \/ ByteAt(str, at) = DOT /\ ByteAt(str, at + 1) \in DigitBytes
    THEN IF ByteAt(str, at) = CH0 /\ LowerOf(ByteAt(str, at + 1)) = 120
         THEN IF \/ ByteAt(str, at + 2) \in HexDigitBytes
                 \/ ByteAt(str, at + 2) = DOT /\ ByteAt(str, at + 3) \in HexDigitBytes
              THEN DigitRuns(str, at + 2, HexDigitBytes, "hex")
              ELSE [kind |-> "dec", intPart |-> <<CH0>>, fraPart |-> <<>>, fracEnd |-> at + 1]
         ELSE DigitRuns(str, at, DigitBytes, "dec")
    ELSE IF HasWordAt(str, at, <<105, 110, 102>>)
         THEN [kind |-> "inf", intPart |-> <<>>, fraPart |-> <<>>,
               fracEnd |-> IF HasWordAt(str, at + 3, <<105, 110, 105, 116, 121>>)
                           THEN at + 8 ELSE at + 3]
    ELSE IF HasWordAt(str, at, <<110, 97, 110>>)
         THEN [kind |-> "nan", intPart |-> <<>>, fraPart |-> <<>>,
               fracEnd |-> IF /\ ByteAt(str, at + 3) = 40
                              /\ ByteAt(str, SkipWhile(str, at + 4, NanCharBytes)) = 41
                           THEN SkipWhile(str, at + 4, NanCharBytes) + 1 ELSE at + 3]
    ELSE [kind |-> "none", intPart |-> <<>>, fraPart |-> <<>>, fracEnd |-> at]

\* An exponent of digits eDigits that ends the literal at stop.
\* Returns [stop, huge, val]: huge when it has more than nine digits.
ExponentOf(eNeg, eDigits, stop) ==
    [stop |-> stop, huge |-> Len(eDigits) > 9,
     val  |-> IF Len(eDigits) > 9 THEN 0
              ELSE (IF eNeg THEN -1 ELSE 1) * SmallNumber(eDigits)]

\* The optional exponent after the digits of m: 'e' or 'E' (a power of ten)
\* after decimal digits, 'p' or 'P' (a power of two) after hexadecimal ones,
\* an optional sign and at least one decimal digit.
Exponent(str, m) ==
    LET fracEnd == m.fracEnd
        hasE    == \/ m.kind = "dec" /\ LowerOf(ByteAt(str, fracEnd)) = 101
                   \/ m.kind = "hex" /\ LowerOf(ByteAt(str, fracEnd)) = 112
        eSigned == hasE /\ ByteAt(str, fracEnd + 1) \in {MINUS, PLUS}
        eNeg    == eSigned /\ str[fracEnd + 2] = MINUS
        eAt     == IF eSigned THEN fracEnd + 2 ELSE fracEnd + 1
        eEnd    == IF hasE THEN SkipWhile(str, eAt, DigitBytes) ELSE fracEnd
    IN  IF hasE /\ eEnd > eAt
        THEN ExponentOf(eNeg, StripZeros(Slice(str, eAt, eEnd - eAt)), eEnd)
        ELSE ExponentOf(FALSE, <<CH0>>, fracEnd)

\* A binary64 is kept as [kind, neg, bits, exp]: for a finite number other
\* than zero, bits are the bits of its significand from the first 1 to the
\* last 1 and exp is the power of two of the first; zero has no bits.  A NaN
\* is kept without sign and payload.
DoubleZero(neg) == [kind |-> "finite", neg |-> neg, bits |-> <<>>, exp |-> 0]

DoubleInf(neg) == [kind |-> "inf", neg |-> neg, bits |-> <<>>, exp |-> 0]

DoubleNaN == [kind |-> "nan", neg |-> FALSE, bits |-> <<>>, exp |-> 0]

\* strtod's result with ERANGE set.
RangeError == [erange |-> TRUE, val |-> DoubleZero(FALSE)]

InRange(val) == [erange |-> FALSE, val |-> val]

\* q + 1 for the bits q.
Increment(q) ==
    LET zeros == {j \in 1..Len(q) : q[j] = 0}
    IN  IF zeros = {} THEN <<1>> \o [j \in 1..Len(q) |-> 0]
        ELSE [j \in 1..Len(q) |-> IF j < Max(zeros) THEN q[j]
                                  ELSE IF j = Max(zeros) THEN 1 ELSE 0]

\* The bits q from their first bit to their last 1.
ToLastOne(q) ==
    LET ones == {j \in 1..Len(q) : q[j] = 1}
    IN  IF ones = {} THEN <<>> ELSE SubSeq(q, 1, Max(ones))

\* The rounded significand q, whose first bit is the power b of two before
\* rounding to p bits: overflow is a range error, and so is a result that is
\* tiny and not exact.
RoundedOf(neg, b, p, q, tiny, inexact) ==
    IF b + (Len(q) - p) >= DBL_MAX_EXP THEN RangeError
    ELSE IF tiny /\ inexact THEN RangeError
    ELSE InRange([kind |-> "finite", neg |-> neg, bits |-> ToLastOne(q),
                  exp |-> b + (Len(q) - p)])

\* round_and_return for the number whose first 1 bit is the power b of two:
\* head holds its first DBL_MANT_DIG + 1 bits, rest tells whether a 1 follows
\* them.  The significand has DBL_MANT_DIG bits, fewer below the normal
\* range; rounding is to nearest, ties to even.  The result is tiny when it
\* is below the normal range after rounding to DBL_MANT_DIG bits.  Below the
\* normal range round_and_return takes its round bit and the bits after it
\* from the first DBL_MANT_DIG bits and from rest: the bit after the first
\* DBL_MANT_DIG bits counts for tininess only, neither for the rounding of
\* the shifted significand nor for its exactness.
RoundBinary64(neg, b, head, rest) ==
    IF b >= DBL_MAX_EXP \/ b < DBL_MIN_EXP - 1 - DBL_MANT_DIG THEN RangeError
    ELSE LET p       == IF b >= DBL_MIN_EXP - 1 THEN DBL_MANT_DIG
                        ELSE b - (DBL_MIN_EXP - 1 - DBL_MANT_DIG)
             q       == SubSeq(head, 1, p)
             sticky  == rest \/ \E j \in p + 2..DBL_MANT_DIG : head[j] = 1
             up      == head[p + 1] = 1 /\ (sticky \/ (p > 0 /\ head[p] = 1))
             tiny    == /\ b < DBL_MIN_EXP - 1
                        /\ ~(b = DBL_MIN_EXP - 2 /\ \A j \in 1..DBL_MANT_DIG + 1 : head[j] = 1)
         IN  RoundedOf(neg, b, p, IF up THEN Increment(q) ELSE q, tiny,
                       head[p + 1] = 1 \/ sticky)

\* A natural number is kept in limbs of four decimal digits, the lowest
\* first, without zero limbs at the top.
LimbAt(a, j) == IF j <= Len(a) THEN a[j] ELSE 0

BigTrim(a) ==
    LET nz == {j \in 1..Len(a) : a[j] # 0}
    IN  IF nz = {} THEN <<>>
        ELSE SubSeq(a, 1, CHOOSE j \in nz : \A i \in j + 1..Len(a) : a[i] = 0)

\* The number a decimal digit run denotes.
BigOfDigits(digits) ==
    BigTrim([j \in 1..(Len(digits) + 3) \div 4 |->
                SmallNumber(SubSeq(digits,
                                   IF Len(digits) - 4 * j + 1 < 1 THEN 1
                                   ELSE Len(digits) - 4 * j + 1,
                                   Len(digits) - 4 * j + 4))])

\* a compared with b on the limbs lo..hi: -1, 0 or 1.
RECURSIVE BigCmpRange(_, _, _, _)
BigCmpBelow(top, a, b, lo, hi) == IF top # 0 \/ lo > hi THEN top ELSE BigCmpRange(a, b, lo, hi)

BigCmpRange(a, b, lo, hi) ==
    IF lo = hi
    THEN (IF a[lo] < b[lo] THEN -1 ELSE IF a[lo] > b[lo] THEN 1 ELSE 0)
    ELSE BigCmpBelow(BigCmpRange(a, b, (lo + hi) \div 2 + 1, hi), a, b, lo, (lo + hi) \div 2)

\* a >= b
BigGe(a, b) ==
    IF Len(a) # Len(b) THEN Len(a) > Len(b)
    ELSE a = <<>> \/ BigCmpRange(a, b, 1, Len(a)) >= 0

\* The limbs lo..hi of k * (r - sub * t) for the carry c that comes in.
\* Returns [l, c]: the limbs and the carry that goes out.
RECURSIVE ScalePass(_, _, _, _, _, _, _)
ScaleLimb(v) == [l |-> <<v % 10000>>, c |-> v \div 10000]

ScaleJoin(low, high) == [l |-> low.l \o high.l, c |-> high.c]

ScaleHigh(r, t, k, sub, lo, hi, low) ==
    ScaleJoin(low, ScalePass(r, t, k, sub, lo, hi, low.c))

ScalePass(r, t, k, sub, lo, hi, c) ==
    IF lo = hi THEN ScaleLimb(k * (LimbAt(r, lo) - sub * LimbAt(t, lo)) + c)
    ELSE ScaleHigh(r, t, k, sub, (lo + hi) \div 2 + 1, hi,
                   ScalePass(r, t, k, sub, lo, (lo + hi) \div 2, c))

\* k * a, for k up to 2^13.
BigScale(a, k) == BigTrim(ScalePass(a, <<>>, k, 0, 1, Len(a) + 1, 0).l)

\* a * 2^n
RECURSIVE BigMulPow2(_, _)
BigMulPow2(a, n) ==
    IF n = 0 THEN a
    ELSE IF n <= 13 THEN BigScale(a, 2 ^ n)
    ELSE CHOOSE p \in {BigMulPow2(half, n - n \div 2) : half \in {BigMulPow2(a, n \div 2)}} :
             TRUE

\* A power L of two with 2^L <= 10^x.
Log2Floor10(x) ==
    IF x >= 0 THEN (x * 33219) \div 10000 ELSE -((-x * 33220 + 9999) \div 10000)

\* For t <= r and t2 = 2 * t: the power b raised and t doubled until r < 2 * t.
RECURSIVE NormaliseTo(_, _, _, _)
NormaliseTo(r, t, t2, b) ==
    IF BigGe(r, t2) THEN NormaliseTo(r, t2, BigScale(t2, 2), b + 1)
    ELSE [r |-> r, t |-> t, b |-> b]

\* One step of the division by t: the next bit of the quotient, and twice
\* what is left.
DivBit(t, st, bit) ==
    IF st.r = <<>> THEN [r |-> <<>>, bits |-> Append(st.bits, 0)]
    ELSE [r    |-> BigTrim(ScalePass(st.r, t, 2, bit, 1, Len(t) + 1, 0).l),
          bits |-> Append(st.bits, bit)]

DivStep(t, st) == DivBit(t, st, IF BigGe(st.r, t) THEN 1 ELSE 0)

\* n steps of the division: the first half of them, then the others.
RECURSIVE DivSteps(_, _, _)
DivSteps(t, st, n) ==
    IF n = 1 THEN DivStep(t, st)
    ELSE CHOOSE s \in {DivSteps(t, half, n - n \div 2) : half \in {DivSteps(t, st, n \div 2)}} :
             TRUE

\* The quotient of the normalised pair s = [r, t, b], rounded; more tells
\* that digits were left out of the numerator.
RoundQuotient(neg, b, st, more) == RoundBinary64(neg, b, st.bits, more \/ st.r # <<>>)

DivideAndRound(neg, s, more) ==
    RoundQuotient(neg, s.b, DivSteps(s.t, [r |-> s.r, bits |-> <<>>], DBL_MANT_DIG + 1),
                  more)

\* num / den rounded, for den a power of ten with at most the power L of two
\* in the quotient.
RoundRatio(neg, num, den, L, more) ==
    IF L >= 0
    THEN DivideAndRound(neg, NormaliseTo(num, BigMulPow2(den, L),
                                         BigScale(BigMulPow2(den, L), 2), L), more)
    ELSE DivideAndRound(neg, NormaliseTo(BigMulPow2(num, -L), den, BigScale(den, 2), L),
                        more)

\* How many of the digits sig, the first of them the power d of ten, strtod
\* reads.  Of a number below 1, written .sig with the exponent d + 1, it
\* reads the digits after the point that reach DBL_MANT_DIG bits past the
\* power of two the number is at least, and none past a quarter of the
\* smallest double's last place; the digits it leaves out count as bits that
\* follow.  (Of a number of 1 or more it leaves out digits of the fraction
\* that lie past the rounding bit: they too only tell that bits follow, as
\* the remainder of the division does here.)
NeedFracDigits(sig, d) ==
    IF d >= 0 THEN Len(sig)
    ELSE Min({Len(sig),
              Min({(-d * 10) \div 3 + 1 + DBL_MANT_DIG, DBL_MANT_DIG - DBL_MIN_EXP + 2})
              + (d + 1)})

\* The number of the decimal digits sig (no zero at either end) whose first
\* digit is the power d of ten.  A power outside the range of the format is
\* a range error before any arithmetic.
DecimalValue(neg, sig, d) ==
    IF d > DBL_MAX_10_EXP \/ d + 1 < DBL_MIN_10_EXP - (DBL_DIG + 1) THEN RangeError
    ELSE LET read == SubSeq(sig, 1, NeedFracDigits(sig, d))
             k    == d - Len(read) + 1
             num  == read \o [j \in 1..(IF k > 0 THEN k ELSE 0) |-> CH0]
             den  == <<CH0 + 1>> \o [j \in 1..(IF k < 0 THEN -k ELSE 0) |-> CH0]
         IN  RoundRatio(neg, BigOfDigits(num), BigOfDigits(den),
                        Log2Floor10(Len(num) - Len(den)), Len(read) < Len(sig))

\* The digits of a run from its first to its last that is not '0'.
Significant(all) ==
    LET nz == {j \in 1..Len(all) : all[j] # CH0}
    IN  IF nz = {} THEN <<>>
        ELSE SubSeq(all, Min(nz), CHOOSE j \in nz : \A i \in j + 1..Len(all) : all[i] = CH0)

\* The value of a hexadecimal digit.
HexValue(b) == IF b \in DigitBytes THEN b - CH0 ELSE LowerOf(b) - 87

\* The bits of a run of hexadecimal digits.
HexBits(digits) ==
    [j \in 1..4 * Len(digits) |->
        (HexValue(digits[(j + 3) \div 4]) \div (2 ^ (3 - ((j - 1) % 4)))) % 2]

\* The number whose bits before the exponent are bits, intBits of them
\* before the point, times 2^e.
HexValueOf(neg, bits, intBits, e) ==
    LET ones  == {j \in 1..Len(bits) : bits[j] = 1}
        first == Min(ones)
    IN  IF ones = {} THEN InRange(DoubleZero(neg))
        ELSE IF e.huge THEN RangeError
        ELSE RoundBinary64(neg, intBits - first + e.val,
                           [j \in 1..DBL_MANT_DIG + 1 |->
                               IF first + j - 1 <= Len(bits) THEN bits[first + j - 1] ELSE 0],
                           \E j \in ones : j > first + DBL_MANT_DIG)

\* strtod's result for the mantissa m and the exponent e.  Returns [erange, val].
DoubleValue(neg, m, e) ==
    IF m.kind = "inf" THEN InRange(DoubleInf(neg))
    ELSE IF m.kind = "nan" THEN InRange(DoubleNaN)
    ELSE IF m.kind = "hex"
         THEN HexValueOf(neg, HexBits(m.intPart \o m.fraPart), 4 * Len(m.intPart), e)
    ELSE LET all  == m.intPart \o m.fraPart
             lead == SkipWhile(all, 0, {CH0})
         IN  IF Significant(all) = <<>> THEN InRange(DoubleZero(neg))
             ELSE IF e.huge THEN RangeError
             ELSE DecimalValue(neg, Significant(all), e.val + (Len(m.intPart) - lead - 1))

\* What std::stod and the test that follows it make of strtod's result v.
DoubleChecked(str, m, e, v) ==
    IF m.kind = "none" THEN [ok |-> FALSE, val |-> DoubleZero(FALSE)]      \* invalid_argument
    ELSE IF v.erange THEN [ok |-> FALSE, val |-> DoubleZero(FALSE)]        \* out_of_range
    ELSE IF e.stop # Len(str) THEN [ok |-> FALSE, val |-> DoubleZero(FALSE)] \* extra characters
    ELSE [ok |-> TRUE, val |-> v.val]

\* std::stod after the white space and the sign sg, for the mantissa m and
\* the exponent e, followed by the test pos == str.length().
DoubleOf(str, sg, m, e) ==
    DoubleChecked(str, m, e,
                  IF m.kind = "none" THEN RangeError ELSE DoubleValue(sg.neg, m, e))

DoubleWith(str, sg, m) == DoubleOf(str, sg, m, Exponent(str, m))

DoubleAfter(str, sg) == DoubleWith(str, sg, Mantissa(str, sg.at))

\* std::stod(str, &pos) followed by the test pos == str.length(): white
\* space, an optional sign, then a decimal or hexadecimal number, an
\* infinity or a NaN; the number is rounded to the nearest binary64, and one
\* that overflows, or is below the normal range and not exact, is
\* out_of_range.  Returns [ok, val].
ParseDouble(str) == DoubleAfter(str, SignAfterSpace(str))

\* The try block of set_double_field once std::stod has returned or thrown r.
DoubleStored(r, field_name, literal) ==
    IF r.ok THEN [value  |-> [type |-> "DOUBLE", kind |-> r.val.kind, neg |-> r.val.neg,
                              bits |-> r.val.bits, exp |-> r.val.exp],
                  errors |-> <<>>]
    ELSE [value |-> NullValue, errors |-> <<InvalidField(field_name, literal)>>]

\* set_double_field.  Returns [value, errors].
DoubleField(slot, field_name) ==
    IF SlotSet(slot) THEN DoubleStored(ParseDouble(slot.val), field_name, slot.val)
    ELSE [value |-> NullValue, errors |-> <<>>]

\* A byte as the char the build reads it as: char is signed (x86-64 gcc), so
\* a byte above 127 is a negative number.
CharOf(b) == IF b > 127 THEN b - 256 ELSE b

\* parse_2digits / parse_4digits of set_timestamp_field: no byte is checked,
\* and p[i] - '0' is computed on char.
Parse2Digits(s, at) == (CharOf(s[at + 1]) - CH0) * 10 + (CharOf(s[at + 2]) - CH0)

Parse4Digits(s, at) ==
    (CharOf(s[at + 1]) - CH0) * 1000 + (CharOf(s[at + 2]) - CH0) * 100
    + (CharOf(s[at + 3]) - CH0) * 10 + (CharOf(s[at + 4]) - CH0)

IsLeapYear(y) == y % 4 = 0 /\ (y % 100 # 0 \/ y % 400 = 0)

MonthDays(y, m) ==
    IF m = 2 THEN (IF IsLeapYear(y) THEN 29 ELSE 28)
    ELSE IF m \in {4, 6, 9, 11} THEN 30 ELSE 31

\* Date::FromDate throws unless the date exists.
DateIsValid(y, m, d) == m >= 1 /\ m <= 12 /\ d >= 1 /\ d <= MonthDays(y, m)

\* Days from 1970-01-01 to the valid date y-m-d.
DaysFromCivil(y, m, d) ==
    LET yy  == IF m <= 2 THEN y - 1 ELSE y
        era == yy \div 400
        yoe == yy - era * 400
        mp  == (m + 9) % 12
        doy == (153 * mp + 2) \div 5 + d - 1
        doe == yoe * 365 + yoe \div 4 - yoe \div 100 + doy
    IN  era * 146097 + doe - 719468

\* The fraction with its digits read as they stand, nothing padded.
FractionMillisUnpadded(s) ==
    IF Len(s) > 17 /\ s[18] = DOT
    THEN SmallNumber(Slice(s, 18, SkipWhile(SubSeq(s, 1, IF Len(s) < 21 THEN Len(s) ELSE 21),
                                            18, DigitBytes) - 18))
    ELSE 0

\* The fraction of set_timestamp_field: up to three digits after the '.',
\* padded on the right to milliseconds.  Returns milliseconds.
FractionMillis(s) ==
    IF Len(s) > 17 /\ s[18] = DOT
    THEN LET stop   == SkipWhile(SubSeq(s, 1, IF Len(s) < 21 THEN Len(s) ELSE 21), 18, DigitBytes)
             digits == stop - 18
             ms     == SmallNumber(Slice(s, 18, digits))
         IN  IF digits = 0 THEN 0 ELSE IF digits = 1 THEN ms * 100
             ELSE IF digits = 2 THEN ms * 10 ELSE ms
    ELSE 0

SECS_PER_DAY == 24 * 60 * 60

\* set_timestamp_field.  A timestamp is kept as day number, second of the day
\* and microsecond of the second.  Time::FromTime checks nothing, so an hour
\* of 24 or more runs into the following days.  Returns [value, errors].
TimestampField(slot, field_name) ==
    IF slot.ptr /\ Len(slot.val) >= 17
    THEN LET s      == slot.val
             year   == Parse4Digits(s, 0)
             month  == Parse2Digits(s, 4)
             day    == Parse2Digits(s, 6)
             hour   == Parse2Digits(s, 9)
             minute == Parse2Digits(s, 12)
             second == Parse2Digits(s, 15)
             micros == FractionMillis(s) * 1000
             secs   == hour * 3600 + minute * 60 + second
         IN  IF DateIsValid(year, month, day)
             THEN [value  |-> [type   |-> "TIMESTAMP",
                               days   |-> DaysFromCivil(year, month, day) + secs \div SECS_PER_DAY,
                               secs   |-> secs % SECS_PER_DAY,
                               micros |-> micros],
                   errors |-> <<>>]
             ELSE [value |-> NullValue, errors |-> <<InvalidField(field_name, s)>>]
    ELSE [value |-> NullValue, errors |-> <<>>]

----------------------------------------------------------------------------
(* fix_type_conversions.cpp: ConvertToTimestamp *)

\* The n bytes from the 0-based index at are digits.
AllDigits(s, at, n) == \A j \in at + 1..at + n : IsDigit(s[j])

\* The text of the exception the try block of ConvertToTimestamp throws on a
\* value of 17 bytes or more, "" when it throws none.  The text of what
\* Date::FromDate throws is the host's and is kept as "Date::FromDate".
ThrownReason(s) ==
    IF ~AllDigits(s, 0, 4) \/ ~AllDigits(s, 4, 2) \/ ~AllDigits(s, 6, 2) THEN "Invalid digit"
    ELSE IF Parse4Digits(s, 0) < 1900 \/ Parse4Digits(s, 0) > 2100 THEN "Year out of range"
    ELSE IF Parse2Digits(s, 4) < 1 \/ Parse2Digits(s, 4) > 12 THEN "Month out of range"
    ELSE IF Parse2Digits(s, 6) < 1 \/ Parse2Digits(s, 6) > 31 THEN "Day out of range"
    ELSE IF s[9] # MINUS THEN "Missing date-time separator"
    ELSE IF ~AllDigits(s, 9, 2) \/ ~AllDigits(s, 12, 2) \/ ~AllDigits(s, 15, 2)
         THEN "Invalid digit"
    ELSE IF Parse2Digits(s, 9) > 23 THEN "Hour out of range"
    ELSE IF Parse2Digits(s, 12) > 59 THEN "Minute out of range"
    ELSE IF Parse2Digits(s, 15) > 59 THEN "Second out of range"
    ELSE IF s[12] # Ascii[":"] \/ s[15] # Ascii[":"] THEN "Missing time separators"
    ELSE IF ~DateIsValid(Parse4Digits(s, 0), Parse2Digits(s, 4), Parse2Digits(s, 6))
         THEN "Date::FromDate"
    ELSE ""

\* The timestamp ConvertToTimestamp stores in result when nothing is thrown.
StampValue(s) ==
    [type   |-> "TIMESTAMP",
     days   |-> DaysFromCivil(Parse4Digits(s, 0), Parse2Digits(s, 4), Parse2Digits(s, 6)),
     secs   |-> Parse2Digits(s, 9) * 3600 + Parse2Digits(s, 12) * 60 + Parse2Digits(s, 15),
     micros |-> FractionMillis(s) * 1000]

\* The catch block of ConvertToTimestamp: [ok, value, errors] for the reason thrown.
StampCaught(s, field_name, reason) ==
    IF reason = "" THEN [ok |-> TRUE, value |-> StampValue(s), errors |-> <<>>]
    ELSE [ok |-> FALSE, value |-> NullValue,
          errors |-> << <<"Invalid ", field_name, ": '">> \o s \o <<"' (", reason, ")">> >>]

\* ConvertToTimestamp.  Returns [ok, value, errors]: the bool returned, the
\* timestamp stored in result and the diagnostics pushed.
ConvertToTimestamp(slot, field_name) ==
    IF ~slot.ptr \/ Len(slot.val) < 17
    THEN [ok |-> FALSE, value |-> NullValue, errors |-> <<>>]
    ELSE StampCaught(slot.val, field_name, ThrownReason(slot.val))

----------------------------------------------------------------------------
(* read_fix_function.cpp: one row of ReadFixScan *)

\* Schema positions of the fixed columns; those below TAGS_COLUMN follow ALL_TAGS.
MSG_SEQ_NUM_COLUMN  == 3
SENDING_TIME_COLUMN == 4
PRICE_COLUMN        == 12
LAST_QTY_COLUMN     == 17
TAGS_COLUMN         == 19
GROUPS_COLUMN       == 20
RAW_MESSAGE_COLUMN  == 21
PARSE_ERROR_COLUMN  == 22
FIRST_CUSTOM_COLUMN == 23

\* The field_name each typed column passes to its coercion.
FieldName(c) ==
    CASE c = 3  -> "MsgSeqNum"
      [] c = 4  -> "SendingTime"
      [] c = 12 -> "Price"
      [] c = 13 -> "OrderQty"
      [] c = 14 -> "CumQty"
      [] c = 15 -> "LeavesQty"
      [] c = 16 -> "LastPx"
      [] c = 17 -> "LastQty"

TypedColumns == {MSG_SEQ_NUM_COLUMN, SENDING_TIME_COLUMN} \cup PRICE_COLUMN..LAST_QTY_COLUMN

\* IsColumnNeeded, had it looked at projection_ids alone.
IsColumnNeededByProjectionIds(gstate, col_idx) ==
    \/ gstate.projection_ids = <<>>
    \/ \E i \in 1..Len(gstate.projection_ids) : gstate.projection_ids[i] = col_idx

\* ReadFixGlobalState::IsColumnNeeded
IsColumnNeeded(gstate, col_idx) ==
    \/ gstate.projection_ids = <<>>
    \/ \E i \in 1..Len(gstate.projection_ids) : gstate.projection_ids[i] = col_idx
    \/ \E i \in 1..Len(gstate.column_indexes) : gstate.column_indexes[i] = col_idx

\* ReadFixInitGlobal
ReadFixInitGlobal(projection_ids, column_indexes) ==
    LET g == [file_index |-> 0, projection_ids |-> projection_ids,
              column_indexes |-> column_indexes]
    IN  [file_index     |-> 0,
         projection_ids |-> projection_ids,
         column_indexes |-> column_indexes,
         needs_tags     |-> IsColumnNeeded(g, TAGS_COLUMN),
         needs_groups   |-> IsColumnNeeded(g, GROUPS_COLUMN)]

\* DConstants::INVALID_INDEX, as a position no output vector has.
INVALID_INDEX == 0

\* get_output_idx: the first output position (from 1) that holds the column.
GetOutputIdx(gstate, schema_col_idx) ==
    LET hits == {i \in 1..Len(gstate.column_indexes) :
                     gstate.column_indexes[i] = schema_col_idx}
    IN  IF hits = {} THEN INVALID_INDEX ELSE Min(hits)

\* Columns 0..18: the coercion of the column applied to its hot slot.
\* Returns [value, errors].
HotColumn(c, parsed) ==
    LET slot == parsed.hot[ALL_TAGS[c + 1]]
    IN  IF c = MSG_SEQ_NUM_COLUMN THEN Int64Field(slot, FieldName(c))
        ELSE IF c = SENDING_TIME_COLUMN THEN TimestampField(slot, FieldName(c))
        ELSE IF c \in PRICE_COLUMN..LAST_QTY_COLUMN THEN DoubleField(slot, FieldName(c))
        ELSE [value |-> StringField(slot), errors |-> <<>>]

\* Column 19: MAP(INTEGER, VARCHAR) of other_tags.
TagsColumn(gstate, parsed) ==
    IF ~gstate.needs_tags THEN NullValue
    ELSE IF DOMAIN parsed.other_tags = {} THEN NullValue
    ELSE [type |-> "MAP", val |-> parsed.other_tags]

INT_MAX_DIGITS == B(<<"2","1","4","7","4","8","3","6","4","7">>)
INT_MIN_DIGITS == B(<<"2","1","4","7","4","8","3","6","4","8">>)

\* The sanity bound on a group count.
MAX_GROUP_COUNT == 100

\* The count, had the sign of the number been dropped.
GroupCountOfUnsigned(count_str) ==
    LET sg   == SignAfterSpace(count_str)
        stop == SkipWhile(count_str, sg.at, DigitBytes)
        mag  == StripZeros(Slice(count_str, sg.at, stop - sg.at))
    IN  IF stop = sg.at \/ Len(mag) > 3 THEN [ok |-> FALSE, count |-> 0]
        ELSE IF SmallNumber(mag) <= 0 \/ SmallNumber(mag) > MAX_GROUP_COUNT
             THEN [ok |-> FALSE, count |-> 0]
        ELSE [ok |-> TRUE, count |-> SmallNumber(mag)]

\* group_count = std::stoi(count_str), no check of where the number stops,
\* then the test group_count <= 0 || group_count > 100.
\* Returns [ok, count]: ok when the group is to be looked for.
GroupCountOf(count_str) ==
    LET sg   == SignAfterSpace(count_str)
        stop == SkipWhile(count_str, sg.at, DigitBytes)
        mag  == StripZeros(Slice(count_str, sg.at, stop - sg.at))
    IN  IF stop = sg.at THEN [ok |-> FALSE, count |-> 0]                    \* invalid_argument
        ELSE IF DigitsLess(IF sg.neg THEN INT_MIN_DIGITS ELSE INT_MAX_DIGITS, mag)
             THEN [ok |-> FALSE, count |-> 0]                               \* out_of_range
        ELSE IF sg.neg \/ Len(mag) > 3 THEN [ok |-> FALSE, count |-> 0]     \* <= 0 or > 100
        ELSE IF SmallNumber(mag) <= 0 \/ SmallNumber(mag) > MAX_GROUP_COUNT
             THEN [ok |-> FALSE, count |-> 0]
        ELSE [ok |-> TRUE, count |-> SmallNumber(mag)]

\* The membership test, had every tag been taken for a member.
IsGroupFieldAny(tag, group_field_tags) == TRUE

\* The for loop over group_field_tags.
IsGroupField(tag, group_field_tags) ==
    \E i \in 1..Len(group_field_tags) : group_field_tags[i] = tag

\* The search for the count tag, had it kept the last match.
FindLastCountTagPosition(ordered, count_tag) ==
    LET hits == {i \in 1..Len(ordered) : ordered[i][1] = count_tag}
    IN  IF hits = {} THEN [found |-> FALSE, pos |-> 0]
        ELSE [found |-> TRUE, pos |-> Max(hits) - 1]

\* The search for the count tag in all_tags_ordered: [found, pos], pos from 0.
FindCountTagPosition(ordered, count_tag) ==
    LET hits == {i \in 1..Len(ordered) : ordered[i][1] = count_tag}
    IN  IF hits = {} THEN [found |-> FALSE, pos |-> 0]
        ELSE [found |-> TRUE, pos |-> Min(hits) - 1]

\* The inner while loop, had it not stopped before the next first member tag.
RECURSIVE CollectInstanceToEnd(_, _, _, _)
CollectInstanceToEnd(ordered, pos, group_field_tags, entries) ==
    IF pos >= Len(ordered) THEN [entries |-> entries, pos |-> pos]
    ELSE IF ~IsGroupField(ordered[pos + 1][1], group_field_tags)
         THEN [entries |-> entries, pos |-> pos]
    ELSE CollectInstanceToEnd(ordered, pos + 1, group_field_tags,
                              Append(entries, ordered[pos + 1]))

\* The inner while loop: collects one instance from pos (from 0).
\* Returns [entries, pos].
RECURSIVE CollectInstance(_, _, _, _)
CollectInstance(ordered, pos, group_field_tags, entries) ==
    IF pos >= Len(ordered) THEN [entries |-> entries, pos |-> pos]
    ELSE IF ~IsGroupField(ordered[pos + 1][1], group_field_tags)
         THEN [entries |-> entries, pos |-> pos]
    ELSE LET taken == Append(entries, ordered[pos + 1])
         IN  IF pos + 1 < Len(ordered) /\ ordered[pos + 2][1] = group_field_tags[1]
             THEN [entries |-> taken, pos |-> pos + 1]
             ELSE CollectInstance(ordered, pos + 1, group_field_tags, taken)

\* The for loop over instances, had it not been bounded by group_count.
RECURSIVE ParseGroupInstancesUncounted(_, _, _, _, _)
ParseGroupInstancesUncounted(ordered, pos, instance, group_count, group_field_tags) ==
    IF ~(pos < Len(ordered)) THEN <<>>
    ELSE IF ~IsGroupField(ordered[pos + 1][1], group_field_tags) THEN <<>>
    ELSE <<[type |-> "MAP",
            entries |-> CollectInstance(ordered, pos, group_field_tags, <<>>).entries]>>
         \o ParseGroupInstancesUncounted(
                ordered, CollectInstance(ordered, pos, group_field_tags, <<>>).pos,
                instance + 1, group_count, group_field_tags)

\* The for loop over instances: the list group_instances.
RECURSIVE ParseGroupInstances(_, _, _, _, _)
ParseGroupInstances(ordered, pos, instance, group_count, group_field_tags) ==
    IF ~(instance < group_count /\ pos < Len(ordered)) THEN <<>>
    ELSE LET one  == CollectInstance(ordered, pos, group_field_tags, <<>>)
             rest == ParseGroupInstances(ordered, one.pos, instance + 1, group_count,
                                         group_field_tags)
         IN  IF one.entries # <<>>
             THEN <<[type |-> "MAP", entries |-> one.entries]>> \o rest
             ELSE rest

\* The body of the loop, had the count been read at the first occurrence of
\* the count tag in the ordered sequence.
GroupInstancesOfFirstValue(parsed, count_tag, group_def) ==
    LET at == FindCountTagPosition(parsed.all_tags_ordered, count_tag)
    IN  IF ~at.found THEN <<>>
        ELSE IF ~GroupCountOf(parsed.all_tags_ordered[at.pos + 1][2]).ok THEN <<>>
        ELSE IF group_def.field_tags = <<>> THEN <<>>
        ELSE ParseGroupInstances(parsed.all_tags_ordered, at.pos + 1, 0,
                                 GroupCountOf(parsed.all_tags_ordered[at.pos + 1][2]).count,
                                 group_def.field_tags)

\* The body of the loop over message_def.groups for one (count_tag, group_def):
\* the instances of the group, <<>> when the group is passed over.
GroupInstancesOf(parsed, count_tag, group_def) ==
    IF count_tag \notin DOMAIN parsed.other_tags THEN <<>>
    ELSE LET gc == GroupCountOf(parsed.other_tags[count_tag])
             at == FindCountTagPosition(parsed.all_tags_ordered, count_tag)
         IN  IF ~gc.ok THEN <<>>
             ELSE IF group_def.field_tags = <<>> THEN <<>>
             ELSE IF ~at.found THEN <<>>
             ELSE ParseGroupInstances(parsed.all_tags_ordered, at.pos + 1, 0, gc.count,
                                      group_def.field_tags)

\* Column 20: MAP(INTEGER, LIST(MAP(INTEGER, VARCHAR))).  dictionary is
\* NoDictionary for a null pointer.
NoDictionary == [loaded |-> FALSE]

GroupsColumn(gstate, bind_data, parsed) ==
    IF ~gstate.needs_groups THEN NullValue
    ELSE IF \/ ~bind_data.dictionary.loaded
            \/ parsed.all_tags_ordered = <<>>
            \/ ~SlotSet(parsed.hot[MSG_TYPE])
         THEN NullValue
    ELSE LET msg_type_str == parsed.hot[MSG_TYPE].val
             messages     == bind_data.dictionary.messages
         IN  IF msg_type_str \notin DOMAIN messages THEN NullValue
             ELSE LET groups == messages[msg_type_str].groups
                      found  == {k \in DOMAIN groups :
                                     GroupInstancesOf(parsed, k, groups[k]) # <<>>}
                  IN  IF found = {} THEN NullValue
                      ELSE [type |-> "MAP",
                            val  |-> [k \in found |-> GroupInstancesOf(parsed, k, groups[k])]]

\* Column 22: the errors joined with "; ".
RECURSIVE JoinErrors(_)
JoinErrors(conversion_errors) ==
    IF Len(conversion_errors) = 1 THEN conversion_errors[1]
    ELSE conversion_errors[1] \o <<"; ">> \o JoinErrors(Tail(conversion_errors))

ParseErrorColumn(conversion_errors) ==
    IF conversion_errors = <<>> THEN NullValue
    ELSE [type |-> "VARCHAR", val |-> JoinErrors(conversion_errors)]

\* Columns 23+: custom_tags[i] read from its hot slot or from other_tags.
CustomColumn(bind_data, i, parsed) ==
    LET tag_num == bind_data.custom_tags[i + 1][2]
    IN  IF IsHotTag(tag_num) THEN StringField(parsed.hot[tag_num])
        ELSE IF tag_num \in DOMAIN parsed.other_tags
             THEN StringField(SlotOf(parsed.other_tags[tag_num]))
        ELSE NullValue

\* The errors the projected typed columns add, in column order.
RECURSIVE TypedErrors(_, _, _)
TypedErrors(gstate, parsed, c) ==
    IF c > LAST_QTY_COLUMN THEN <<>>
    ELSE (IF c \in TypedColumns /\ GetOutputIdx(gstate, c) # INVALID_INDEX
          THEN HotColumn(c, parsed).errors ELSE <<>>)
         \o TypedErrors(gstate, parsed, c + 1)

\* conversion_errors when column 22 is written.
ConversionErrors(gstate, parsed) ==
    (IF parsed.parse_error # "" THEN << <<parsed.parse_error>> >> ELSE <<>>)
    \o TypedErrors(gstate, parsed, 0)

\* What the row writes at the output position of schema column c.
ColumnValue(c, line, bind_data, gstate, parsed) ==
    IF c < TAGS_COLUMN THEN HotColumn(c, parsed).value
    ELSE IF c = TAGS_COLUMN THEN TagsColumn(gstate, parsed)
    ELSE IF c = GROUPS_COLUMN THEN GroupsColumn(gstate, bind_data, parsed)
    ELSE IF c = RAW_MESSAGE_COLUMN THEN Varchar(line)
    ELSE IF c = PARSE_ERROR_COLUMN THEN ParseErrorColumn(ConversionErrors(gstate, parsed))
    ELSE IF c - FIRST_CUSTOM_COLUMN < Len(bind_data.custom_tags)
         THEN CustomColumn(bind_data, c - FIRST_CUSTOM_COLUMN, parsed)
    ELSE [type |-> "UNSET"]

\* The values one row writes at the output positions once the tokenizer has
\* returned tok.  A position whose column get_output_idx maps elsewhere is not
\* written.  trapped: the tokenizer trapped and no row was completed; parsed:
\* the ParsedFixMessage the row was built from.
WriteRow(line, bind_data, gstate, tok) ==
    [trapped |-> tok.pc = "trapped",
     parsed  |-> tok.msg,
     out     |-> [i \in 1..Len(gstate.column_indexes) |->
                     IF GetOutputIdx(gstate, gstate.column_indexes[i]) = i
                     THEN ColumnValue(gstate.column_indexes[i], line, bind_data,
                                      gstate, tok.msg)
                     ELSE [type |-> "UNSET"]]]

\* The body of the scan loop for one non-empty line.
BuildRow(line, bind_data, gstate, of) ==
    WriteRow(line, bind_data, gstate, Parse(line, bind_data.delimiter, of))

----------------------------------------------------------------------------
(* read_fix_function.cpp: ReadFixScan *)

\* The capacity of one batch; 2048 in the host, scaled down here.
STANDARD_VECTOR_SIZE == 2

\* The test of line.empty(), had it never held.
SkipLineNever(line) == FALSE

\* if (line.empty()) continue;
SkipLine(line) == line = <<>>

RECURSIVE ScanLoop(_, _, _, _, _)

\* The end of the loop body for the row built from a non-empty line: the row
\* joins the batch, unless the tokenizer trapped.
ScanRow(bind_data, gstate, ls, rows, of, row) ==
    IF row.trapped THEN [lstate |-> ls, rows |-> rows, trapped |-> TRUE]
    ELSE ScanLoop(bind_data, gstate, ls,
                  Append(rows, [file |-> ls.current_file, line_number |-> ls.line_number,
                                out |-> row.out]), of)

\* The loop body once the read loop has returned r: the file is closed at its
\* end; otherwise the line is counted and, unless empty, made a row.
ScanLine(bind_data, gstate, rows, of, r) ==
    LET line == StripCR(r.line)
        ls   == [r.rd EXCEPT !.line_number = @ + 1]
    IN  IF ~r.found
        THEN [lstate |-> [r.rd EXCEPT !.open = FALSE], rows |-> rows, trapped |-> FALSE]
        ELSE IF SkipLine(line) THEN ScanLoop(bind_data, gstate, ls, rows, of)
        ELSE ScanRow(bind_data, gstate, ls, rows, of, BuildRow(line, bind_data, gstate, of))

\* The loop while (output_idx < STANDARD_VECTOR_SIZE && !lstate.file_done).
\* rows is the batch so far.  Returns [lstate, rows, trapped].
ScanLoop(bind_data, gstate, lstate, rows, of) ==
    IF ~(Len(rows) < STANDARD_VECTOR_SIZE /\ ~lstate.file_done)
    THEN [lstate |-> lstate, rows |-> rows, trapped |-> FALSE]
    ELSE ScanLine(bind_data, gstate, rows, of, ReadLoop(lstate, <<>>))

\* The batch of one call: the loop's result with the global state.
Batch(gstate, r) ==
    [gstate |-> gstate, lstate |-> r.lstate, rows |-> r.rows, trapped |-> r.trapped]

\* The file a reader is given when it claims position file_index of the list.
OpenedFile(bind_data, file_index) ==
    [open |-> TRUE, current_file |-> file_index + 1, line_number |-> 0, buffer |-> <<>>,
     buffer_offset |-> 0, file_done |-> FALSE, src |-> bind_data.files[file_index + 1]]

\* ReadFixScan up to its read loop: with no file open it takes gstate.lock and
\* claims the next file of the list, or finds none left and returns.
\* Returns [more, gstate, lstate]; more is false when the call has returned.
ReadFixScanClaim(bind_data, gstate, lstate) ==
    IF lstate.open THEN [more |-> TRUE, gstate |-> gstate, lstate |-> lstate]
    ELSE IF gstate.file_index >= Len(bind_data.files)
         THEN [more |-> FALSE, gstate |-> gstate, lstate |-> lstate]
    ELSE [more   |-> TRUE,
          gstate |-> [gstate EXCEPT !.file_index = @ + 1],
          lstate |-> OpenedFile(bind_data, gstate.file_index)]

\* A read loop that, at the end of a file with room left in the batch, claims
\* the next file and goes on filling the batch from it.
ReadFixScanReadThroughFiles(bind_data, gstate, lstate, of) ==
    LET first == ScanLoop(bind_data, gstate, lstate, <<>>, of)
        g2    == [gstate EXCEPT !.file_index = @ + 1]
    IN  IF \/ first.trapped
           \/ Len(first.rows) >= STANDARD_VECTOR_SIZE
           \/ gstate.file_index >= Len(bind_data.files)
        THEN Batch(gstate, first)
        ELSE Batch(g2, ScanLoop(bind_data, g2, OpenedFile(bind_data, gstate.file_index),
                                first.rows, of))

\* ReadFixScan from its read loop on, the lock released: the loop and
\* SetCardinality.  Returns [gstate, lstate, rows, trapped]; rows is the
\* batch, its length the cardinality set on the output.
ReadFixScanRead(bind_data, gstate, lstate, of) ==
    Batch(gstate, ScanLoop(bind_data, gstate, lstate, <<>>, of))

----------------------------------------------------------------------------
(* The tokenizer run step by step on every small input *)

MaxInputLen == 6

OverflowModes == {"wrap", "trap"}

Delimiters == {PIPE, SOH}

TokAlphabet == {Ascii["3"], Ascii["5"], EQ, Ascii["D"]}

\* Inputs whose tag digits do not fit an int.
LongTagInputs(d) ==
    {B(<<"4","2","9","4","9","6","7","3","3","1","=","D">>),
     B(<<"2","1","4","7","4","8","3","6","4","8","=","D">>),
     B(<<"3","5","=","D">>) \o <<d>> \o B(<<"9","9","9","9","9","9","9","9","9","9","=","x">>)}

TokInputs(d) == BSeq(TokAlphabet \cup {d}, MaxInputLen) \cup LongTagInputs(d)

\* The variables of a machine that a specification does not run.
TokIdle == tk_input = <<>> /\ tk_delim = PIPE /\ tk = TokStart

TokInit ==
    /\ ovf \in OverflowModes
    /\ tk_delim \in Delimiters
    /\ tk_input \in TokInputs(tk_delim)
    /\ tk = TokStart
    /\ FrIdle
    /\ RowIdle
    /\ ScanIdle
    /\ SideIdle

TokEnter ==
    /\ tk.pc = "start"
    /\ tk' = ParseEnter(tk_input)
    /\ UNCHANGED <<ovf, tk_input, tk_delim, frVars, rowVars, scanVars, sideVars>>

TokSegment ==
    /\ tk.pc = "scan"
    /\ tk.pos < Len(tk_input)
    /\ tk' = ParseSegment(tk_input, tk_delim, tk, ovf)
    /\ UNCHANGED <<ovf, tk_input, tk_delim, frVars, rowVars, scanVars, sideVars>>

TokLeave ==
    /\ tk.pc = "scan"
    /\ tk.pos >= Len(tk_input)
    /\ tk' = ParseLeave(tk)
    /\ UNCHANGED <<ovf, tk_input, tk_delim, frVars, rowVars, scanVars, sideVars>>

TokNext == TokEnter \/ TokSegment \/ TokLeave

SpecTok == TokInit /\ [][TokNext]_vars

----------------------------------------------------------------------------
(* What the tokenizer's contract says of an input, read off the bytes alone *)

\* The runs of s between successive d bytes.
RECURSIVE SplitBy(_, _)
SplitBy(s, d) ==
    IF \A i \in 1..Len(s) : s[i] # d THEN <<s>>
    ELSE LET k == Min({i \in 1..Len(s) : s[i] = d})
         IN  <<SubSeq(s, 1, k - 1)>> \o SplitBy(SubSeq(s, k + 1, Len(s)), d)

NonEmptySegments(input, d) == SelectSeq(SplitBy(input, d), LAMBDA seg : seg # <<>>)

HasEq(seg) == \E i \in 1..Len(seg) : seg[i] = EQ

TagText(seg) == SubSeq(seg, 1, Min({i \in 1..Len(seg) : seg[i] = EQ}) - 1)

ValueText(seg) == SubSeq(seg, Min({i \in 1..Len(seg) : seg[i] = EQ}) + 1, Len(seg))

WellFormed(seg) ==
    /\ HasEq(seg)
    /\ TagText(seg) # <<>>
    /\ \A i \in 1..Len(TagText(seg)) : IsDigit(TagText(seg)[i])

\* The decimal digits of an int; no digit run denotes a negative int.
RECURSIVE Decimal(_)
Decimal(n) ==
    IF n < 0 THEN <<MINUS>>
    ELSE IF n < 10 THEN <<CH0 + n>>
    ELSE Append(Decimal(n \div 10), CH0 + (n % 10))

\* The segment's digits denote tag t.
Denotes(seg, t) == StripZeros(TagText(seg)) = Decimal(t)

\* The value of the last segment of segs that denotes t, as a slot.
LastValue(segs, t) ==
    LET occ == {i \in 1..Len(segs) : Denotes(segs[i], t)}
    IN  IF occ = {} THEN NullSlot ELSE SlotOf(ValueText(segs[Max(occ)]))

ExpectedError(input, d) ==
    LET segs == NonEmptySegments(input, d)
        bad  == {i \in 1..Len(segs) : ~WellFormed(segs[i])}
    IN  IF input = <<>> THEN "Empty message"
        ELSE IF bad # {}
             THEN IF ~HasEq(segs[Min(bad)]) THEN "Invalid tag format (missing '=')"
                  ELSE "Failed to parse tag"
        ELSE IF segs = <<>> THEN "No valid tags found"
        ELSE IF ~SlotSet(LastValue(segs, MSG_TYPE)) THEN "Missing required tag 35 (MsgType)"
        ELSE ""

\* C4: when Parse has returned, it returned failure exactly when it recorded an
\* error, and the error text is the one the input fixes: "Empty message" for an
\* empty input, else the first malformed non-empty segment decides between
\* "Invalid tag format (missing '=')" and "Failed to parse tag", else "No valid
\* tags found" when no segment is non-empty, else "Missing required tag 35
\* (MsgType)" when tag 35 is absent or empty, else success with no error.
TokErrorFixedByInput ==
    tk.pc = "done" =>
        /\ tk.success <=> (tk.msg.parse_error = "")
        /\ tk.msg.parse_error = ExpectedError(tk_input, tk_delim)

\* No tag of the input has more than nine digits, so every tag fits an int.
TagsFitInt(input, d) ==
    LET segs == NonEmptySegments(input, d)
    IN  \A i \in 1..Len(segs) : HasEq(segs[i]) => Len(TagText(segs[i])) <= 9

\* The statement of C4 on the inputs whose tags fit an int.
TokErrorFixedByInputWithinInt ==
    (tk.pc = "done" /\ TagsFitInt(tk_input, tk_delim)) =>
        /\ tk.success <=> (tk.msg.parse_error = "")
        /\ tk.msg.parse_error = ExpectedError(tk_input, tk_delim)

AllWellFormed(input, d) ==
    LET segs == NonEmptySegments(input, d)
    IN  \A i \in 1..Len(segs) : WellFormed(segs[i])

\* The message holds what the segments say: one (tag, value) entry per
\* non-empty segment in wire order, every hot slot the last value of its tag,
\* the overflow map the last value of every non-hot tag that occurs.
HoldsSegments(msg, segs) ==
    /\ Len(msg.all_tags_ordered) = Len(segs)
    /\ \A i \in 1..Len(segs) :
          /\ Denotes(segs[i], msg.all_tags_ordered[i][1])
          /\ msg.all_tags_ordered[i][2] = ValueText(segs[i])
    /\ \A h \in HotTags : msg.hot[h] = LastValue(segs, h)
    /\ \A t \in DOMAIN msg.other_tags :
          /\ ~IsHotTag(t)
          /\ LastValue(segs, t) = SlotOf(msg.other_tags[t])
    /\ \A i \in 1..Len(segs) :
          (\A h \in HotTags : ~Denotes(segs[i], h)) =>
              \E t \in DOMAIN msg.other_tags : Denotes(segs[i], t)

\* C5: for an input whose non-empty segments are all digits, '=', bytes, Parse
\* leaves one (tag, value) entry per segment in wire order, the tag being the
\* decimal value of the digits, each hot slot holding the last value of its tag
\* and the overflow map the last value of each non-hot tag.
TokKeepsEverySegment ==
    (tk.pc = "done" /\ AllWellFormed(tk_input, tk_delim)) =>
        HoldsSegments(tk.msg, NonEmptySegments(tk_input, tk_delim))

\* The statement of C5 on the inputs whose tags fit an int.
TokKeepsEverySegmentWithinInt ==
    (tk.pc = "done" /\ AllWellFormed(tk_input, tk_delim) /\ TagsFitInt(tk_input, tk_delim)) =>
        HoldsSegments(tk.msg, NonEmptySegments(tk_input, tk_delim))

----------------------------------------------------------------------------
(* The reader run on every small file, delivered in every way *)

MaxFileLen == 4

FrameAlphabet == {LF, CR, Ascii["a"]}

\* Every way of delivering the bytes s in chunks of 1..BUFFER_SIZE bytes.
RECURSIVE Chunkings(_)
Chunkings(s) ==
    IF s = <<>> THEN {<<>>}
    ELSE UNION {{<<SubSeq(s, 1, k)>> \o rest : rest \in Chunkings(SubSeq(s, k + 1, Len(s)))} :
                k \in 1..(IF Len(s) < BUFFER_SIZE THEN Len(s) ELSE BUFFER_SIZE)}

Deliveries == UNION {Chunkings(s) : s \in BSeq(FrameAlphabet, MaxFileLen)}

\* The files that may follow the first one in the list.
FollowingFiles == {<<>>, <<B(<<"a">>)>>}

\* The bytes of a file given as chunks.
RECURSIVE Flatten(_)
Flatten(chunks) == IF chunks = <<>> THEN <<>> ELSE Head(chunks) \o Flatten(Tail(chunks))

FrInit ==
    /\ ovf = "wrap"
    /\ TokIdle
    /\ RowIdle
    /\ ScanIdle
    /\ SideIdle
    /\ fr_files \in {<<d>> : d \in Deliveries}
                    \cup {<<d, e>> : d \in Deliveries, e \in FollowingFiles}
    /\ fr_index = 0
    /\ fr = ClosedReader
    /\ fr_out = [i \in 1..Len(fr_files) |-> <<>>]
    /\ fr_eof = {}
    /\ fr_pc = "idle"

\* FixFileReader::Close, called on its own.
FrClose ==
    /\ fr_pc = "idle"
    /\ fr' = Close(fr)
    /\ UNCHANGED <<ovf, tokVars, fr_files, fr_index, fr_out, fr_eof, fr_pc, rowVars, scanVars,
                   sideVars>>

\* OpenNextFile up to the lock: it closes the file it has, wherever the
\* reading stands, and waits.
FrOpenNextFileClose ==
    /\ fr_pc = "idle"
    /\ fr' = Close(fr)
    /\ fr_pc' = "opening"
    /\ UNCHANGED <<ovf, tokVars, fr_files, fr_index, fr_out, fr_eof, rowVars, scanVars, sideVars>>

\* OpenNextFile under the lock: the next file of the list, if one is left.
FrOpenNextFile ==
    /\ fr_pc = "opening"
    /\ \E r \in {OpenNextFile(fr, fr_files, fr_index)} :
           /\ fr' = r.rd
           /\ fr_index' = r.file_index
    /\ fr_pc' = "idle"
    /\ UNCHANGED <<ovf, tokVars, fr_files, fr_out, fr_eof, rowVars, scanVars, sideVars>>

FrReadLine ==
    /\ fr_pc = "idle"
    /\ fr.open
    /\ fr.current_file \notin fr_eof
    /\ LET r == ReadLine(fr)
       IN  /\ fr' = r.rd
           /\ fr_out' = IF r.ret
                        THEN [fr_out EXCEPT ![fr.current_file] = Append(@, r.line)]
                        ELSE fr_out
           /\ fr_eof' = IF r.ret THEN fr_eof ELSE fr_eof \cup {fr.current_file}
    /\ UNCHANGED <<ovf, tokVars, fr_files, fr_index, fr_pc, rowVars, scanVars, sideVars>>

FrNext == FrClose \/ FrOpenNextFileClose \/ FrOpenNextFile \/ FrReadLine

SpecFramer == FrInit /\ [][FrNext]_vars

\* The lines the framing contract gives for a file's bytes: the runs between
\* successive '\n', the run after the last '\n' only when it is non-empty, each
\* without one trailing '\r'.
FrameRef(bytes) ==
    LET runs  == SplitBy(bytes, LF)
        final == runs[Len(runs)]
        kept  == SubSeq(runs, 1, Len(runs) - 1) \o (IF final # <<>> THEN <<final>> ELSE <<>>)
    IN  [i \in 1..Len(kept) |->
            IF kept[i] # <<>> /\ kept[i][Len(kept[i])] = CR
            THEN SubSeq(kept[i], 1, Len(kept[i]) - 1)
            ELSE kept[i]]

IsPrefix(p, q) == Len(p) <= Len(q) /\ SubSeq(q, 1, Len(p)) = p

\* C3: the lines ReadLine returns for a file are, in order, the runs between
\* successive '\n' bytes, each without exactly one trailing '\r'; the run after
\* the last '\n' is returned iff it is non-empty; a '\r' inside a run stays.
\* On the way they are a prefix of those lines, at end-of-file all of them.
FramerYieldsTheRuns ==
    \A i \in 1..Len(fr_files) :
        /\ IsPrefix(fr_out[i], FrameRef(Flatten(fr_files[i])))
        /\ i \in fr_eof => fr_out[i] = FrameRef(Flatten(fr_files[i]))

\* A file read to its end whose lines show every case of the claim: a CRLF
\* line, a '\r' kept inside a line, and a final line without terminator.
FramerYieldsTheRunsWitness ==
    \E i \in 1..Len(fr_files) :
        /\ i \in fr_eof
        /\ Flatten(fr_files[i]) = <<CR, Ascii["a"], LF, CR>>
        /\ fr_out[i] = <<<<CR, Ascii["a"]>>, <<>>>>

----------------------------------------------------------------------------
(* One line turned into a row under two projections *)

\* The dictionary of the bind: message "8" declares the group counted by 453
\* with members 448, 447, a group counted by the hot tag 58 with member 448 and
\* a group counted by 78 with no member; "D" declares none.
GroupDef(count_tag, field_tags) ==
    [count_tag |-> count_tag, field_tags |-> field_tags, subgroups |-> <<>>]

MessageDef(name, msg_type, groups) ==
    [name |-> name, msg_type |-> msg_type, required_fields |-> <<>>,
     optional_fields |-> <<>>, groups |-> groups]

TestDictionary ==
    [loaded   |-> TRUE,
     messages |->
        (B(<<"8">>) :> MessageDef("ExecutionReport", B(<<"8">>),
                           (453 :> GroupDef(453, <<448, 447>>))
                           @@ (TEXT :> GroupDef(TEXT, <<448>>))
                           @@ (78 :> GroupDef(78, <<>>)))
         @@ B(<<"D">>) :> MessageDef("NewOrderSingle", B(<<"D">>), <<>>))]

\* The segments with the given delimiter between them.
RECURSIVE JoinBy(_, _)
JoinBy(segs, d) ==
    IF segs = <<>> THEN <<>>
    ELSE IF Len(segs) = 1 THEN segs[1]
    ELSE segs[1] \o <<d>> \o JoinBy(Tail(segs), d)

\* All sequences over S of length at most n.
SeqsUpTo(S, n) == UNION {[1..k -> S] : k \in 0..n}

MaxRowSegments == 3

RowSegments ==
    { B(<<"3","5","=","D">>), B(<<"3","5","=">>),
      B(<<"3","4","=","7">>), B(<<"3","4","=","x">>),
      B(<<"5","2","=","2","0","2","3","1","2","1","5","-","1","0",":","3","0",":","0","0">>),
      B(<<"5","2","=","2","0","2","3","1","3","1","5","-","1","0",":","3","0",":","0","0">>),
      B(<<"5","2","=","2","0","2","3">>),
      B(<<"4","4","=","1",".","5">>), B(<<"4","4","=","x">>),
      B(<<"x">>), B(<<"9","=","1">>) }

RowLines(d) == {JoinBy(segs, d) : segs \in SeqsUpTo(RowSegments, MaxRowSegments)} \ {<<>>}

\* The bind of every row here: one custom column, for tag 9.
BindOf(d, files) ==
    [files |-> files, delimiter |-> d, dictionary |-> TestDictionary,
     custom_tags |-> << <<"BodyLength", 9>> >>]

\* column_indexes of the first scan, with no projection_ids.
FirstProjections ==
    { <<22, 3, 0>>, <<0, 3, 4, 12, 19, 20, 21, 22, 23>> }

\* column_indexes of the second scan, whose projection_ids keep only the
\* first of them (the others are filter columns).
SecondProjections ==
    { <<4, 12, 19, 22>>, <<0, 3, 22, 21>> }

RowInit ==
    /\ ovf = "wrap"
    /\ TokIdle
    /\ FrIdle
    /\ ScanIdle
    /\ SideIdle
    /\ \E d \in Delimiters :
          /\ rw_bind = BindOf(d, <<>>)
          /\ rw_line \in RowLines(d)
    /\ rw_gstates \in {<<ReadFixInitGlobal(<<>>, a), ReadFixInitGlobal(<<0>>, b)>> :
                          a \in FirstProjections, b \in SecondProjections}
    /\ rw_rows = <<>>

\* The body of the scan loop run on the line under each of the two scans.
RowEmit ==
    /\ rw_rows = <<>>
    /\ rw_line # <<>>
    /\ rw_rows' = [i \in 1..2 |-> BuildRow(rw_line, rw_bind, rw_gstates[i], ovf)]
    /\ UNCHANGED <<ovf, tokVars, frVars, rw_line, rw_bind, rw_gstates, scanVars, sideVars>>

RowNext == RowEmit

SpecRow == RowInit /\ [][RowNext]_vars

\* The rows emitted so far: the indexes of rw_rows.
Emitted == {i \in 1..Len(rw_rows) : ~rw_rows[i].trapped}

\* Whether scan i has the schema column c in its output.
Projected(i, c) == \E p \in 1..Len(rw_gstates[i].column_indexes) :
                       rw_gstates[i].column_indexes[p] = c

\* The value of schema column c in the row of scan i.
Cell(i, c) ==
    rw_rows[i].out[CHOOSE p \in 1..Len(rw_gstates[i].column_indexes) :
                       rw_gstates[i].column_indexes[p] = c]

\* The segments of the line that a reader of the wire sees.
LineSegments == NonEmptySegments(rw_line, rw_bind.delimiter)

\* C6: a row whose parse_error is null comes from a line whose last tag 35 has
\* a non-empty value, and its MsgType column, when projected, is that value.
RowNullErrorHasMsgType ==
    \A i \in Emitted :
        (Projected(i, PARSE_ERROR_COLUMN) /\ Cell(i, PARSE_ERROR_COLUMN) = NullValue) =>
            /\ \A j \in 1..Len(LineSegments) : WellFormed(LineSegments[j])
            /\ SlotSet(LastValue(LineSegments, MSG_TYPE))
            /\ Projected(i, 0) =>
                   Cell(i, 0) = Varchar(LastValue(LineSegments, MSG_TYPE).val)

RowNullErrorHasMsgTypeWitness ==
    \E i \in Emitted :
        /\ Projected(i, PARSE_ERROR_COLUMN) /\ Cell(i, PARSE_ERROR_COLUMN) = NullValue
        /\ Projected(i, 0) /\ Cell(i, 0) = Varchar(B(<<"D">>))
        /\ Len(LineSegments) = 3

\* The message had a MsgType: its last tag 35, as the tokenizer kept it, is non-empty.
HadMsgType(i) == SlotSet(rw_rows[i].parsed.hot[MSG_TYPE])

\* The hot slot behind the typed column c, as the tokenizer kept it.
TypedSlot(i, c) == rw_rows[i].parsed.hot[ALL_TAGS[c + 1]]

\* The coercion of typed column c failed in the row of scan i: the tag had a
\* value to convert and the column is null.
CoercionFailed(i, c) ==
    /\ SlotSet(TypedSlot(i, c))
    /\ Cell(i, c) = NullValue

\* C7 as stated: parse_error is null iff the message had a MsgType and no
\* coercion of a projected typed column failed.
RowErrorNullIffMsgTypeAndCoercions ==
    \A i \in Emitted :
        Projected(i, PARSE_ERROR_COLUMN) =>
            ( Cell(i, PARSE_ERROR_COLUMN) = NullValue
              <=> /\ HadMsgType(i)
                  /\ \A c \in TypedColumns : Projected(i, c) => ~CoercionFailed(i, c) )

\* The same with every structural error of the line in the place of a missing
\* MsgType: the line is not empty, every non-empty segment is digits, '=',
\* bytes, and the last tag 35 has a non-empty value.  A SendingTime shorter
\* than 17 bytes, which is null with no diagnostic, violates it.
RowErrorNullIffNoStructuralOrCoercionError ==
    \A i \in Emitted :
        Projected(i, PARSE_ERROR_COLUMN) =>
            ( Cell(i, PARSE_ERROR_COLUMN) = NullValue
              <=> /\ ExpectedError(rw_line, rw_bind.delimiter) = ""
                  /\ \A c \in TypedColumns : Projected(i, c) => ~CoercionFailed(i, c) )

\* What holds of the rows: the same, a failed SendingTime counted only when
\* its value has 17 bytes or more.
RowErrorNullIffNoErrorButShortTime ==
    \A i \in Emitted :
        Projected(i, PARSE_ERROR_COLUMN) =>
            ( Cell(i, PARSE_ERROR_COLUMN) = NullValue
              <=> /\ ExpectedError(rw_line, rw_bind.delimiter) = ""
                  /\ \A c \in TypedColumns :
                         (Projected(i, c) /\ CoercionFailed(i, c)) =>
                             /\ c = SENDING_TIME_COLUMN
                             /\ Len(TypedSlot(i, c).val) < 17 )

\* The typed columns in the output of scan i.
TypedProjected(i) == {c \in TypedColumns : Projected(i, c)}

\* C8 as stated: every column in the output of both scans has the same value
\* in both rows, parse_error included.
ProjectionTransparent ==
    Emitted = {1, 2} =>
        \A c \in 0..FIRST_CUSTOM_COLUMN :
            (Projected(1, c) /\ Projected(2, c)) => Cell(1, c) = Cell(2, c)

\* C8: every column other than parse_error that is in the output of both
\* scans has the same value in both rows, and so has parse_error when the two
\* scans have the same typed columns in their output.
ProjectionTransparentButParseError ==
    Emitted = {1, 2} =>
        \A c \in 0..FIRST_CUSTOM_COLUMN :
            (Projected(1, c) /\ Projected(2, c)) =>
                \/ Cell(1, c) = Cell(2, c)
                \/ c = PARSE_ERROR_COLUMN /\ TypedProjected(1) # TypedProjected(2)

\* Two scans that share SendingTime, tags and parse_error, on a line with a
\* non-hot tag, a SendingTime that converts and a MsgSeqNum that does not:
\* only the scan with MsgSeqNum in its output reports it.
ProjectionTransparentButParseErrorWitness ==
    /\ Emitted = {1, 2}
    /\ Projected(1, MSG_SEQ_NUM_COLUMN) /\ ~Projected(2, MSG_SEQ_NUM_COLUMN)
    /\ Projected(1, TAGS_COLUMN) /\ Projected(2, TAGS_COLUMN)
    /\ Cell(2, TAGS_COLUMN) = [type |-> "MAP", val |-> (9 :> B(<<"1">>))]
    /\ Cell(1, SENDING_TIME_COLUMN).type = "TIMESTAMP"
    /\ Cell(2, SENDING_TIME_COLUMN) = Cell(1, SENDING_TIME_COLUMN)
    /\ Cell(2, PARSE_ERROR_COLUMN).type = "VARCHAR"
    /\ Cell(1, PARSE_ERROR_COLUMN) # Cell(2, PARSE_ERROR_COLUMN)

----------------------------------------------------------------------------
(* One line with repeating groups turned into a row *)

MaxGroupSegments == 4

GroupHeads == { B(<<"3","5","=","8">>), B(<<"3","5","=","D">>) }

GroupSegments ==
    { B(<<"4","5","3","=","1">>), B(<<"4","5","3","=","2">>), B(<<"4","5","3","=","0">>),
      B(<<"4","5","3","=","2","x">>),
      B(<<"4","4","8","=","a">>), B(<<"4","4","7","=","e">>),
      B(<<"7","8","=","1">>), B(<<"5","8","=","1">>) }

GroupLines(d) ==
    {JoinBy(<<h>> \o segs, d) : h \in GroupHeads,
                                segs \in SeqsUpTo(GroupSegments, MaxGroupSegments)}

GroupInit ==
    /\ ovf = "wrap"
    /\ TokIdle
    /\ FrIdle
    /\ ScanIdle
    /\ SideIdle
    /\ rw_bind = BindOf(PIPE, <<>>)
    /\ rw_line \in GroupLines(PIPE)
    /\ rw_gstates = <<ReadFixInitGlobal(<<>>, <<20>>), ReadFixInitGlobal(<<0>>, <<0, 19, 20>>)>>
    /\ rw_rows = <<>>

SpecGroup == GroupInit /\ [][RowNext]_vars

\* The ordered tag sequence and the overflow map the row of scan i was built from.
Ordered(i) == rw_rows[i].parsed.all_tags_ordered

Overflow(i) == rw_rows[i].parsed.other_tags

\* The group definitions the dictionary declares for the type of the message.
Declared(i) ==
    LET type == rw_rows[i].parsed.hot[MSG_TYPE]
    IN  IF SlotSet(type) /\ type.val \in DOMAIN rw_bind.dictionary.messages
        THEN rw_bind.dictionary.messages[type.val].groups
        ELSE <<>>

\* groups has an entry for k in the row of scan i.
HasGroup(i, k) ==
    Cell(i, GROUPS_COLUMN).type = "MAP" /\ k \in DOMAIN Cell(i, GROUPS_COLUMN).val

\* The tags after position p that come before the first tag outside M.
Stretch(ordered, p, M) ==
    LET out == {j \in p + 1..Len(ordered) : ~\E m \in 1..Len(M) : M[m] = ordered[j][1]}
    IN  SubSeq(ordered, p + 1, IF out = {} THEN Len(ordered) ELSE Min(out) - 1)

\* A stretch cut before every later occurrence of the tag first.
RECURSIVE RunsOf(_, _)
RunsOf(stretch, first) ==
    LET again == {j \in 2..Len(stretch) : stretch[j][1] = first}
    IN  IF stretch = <<>> THEN <<>>
        ELSE IF again = {} THEN <<stretch>>
        ELSE <<SubSeq(stretch, 1, Min(again) - 1)>>
             \o RunsOf(SubSeq(stretch, Min(again), Len(stretch)), first)

\* Position p of the ordered sequence holds k with the decimal value N in
\* 1..100 and is followed by exactly N runs of tags from M, each beginning with
\* M[0], and then a tag outside M or the end.
HoldsRuns(ordered, p, k, M) ==
    /\ ordered[p][1] = k
    /\ M # <<>>
    /\ \E N \in 1..MAX_GROUP_COUNT :
          /\ ordered[p][2] = Decimal(N)
          /\ Stretch(ordered, p, M) # <<>>
          /\ Stretch(ordered, p, M)[1][1] = M[1]
          /\ Len(RunsOf(Stretch(ordered, p, M), M[1])) = N

\* groups[k] in the row of scan i is the list of the runs after position p.
GroupIsRuns(i, p, k, M) ==
    /\ HasGroup(i, k)
    /\ Cell(i, GROUPS_COLUMN).val[k] =
           [j \in 1..Len(RunsOf(Stretch(Ordered(i), p, M), M[1])) |->
               [type |-> "MAP", entries |-> RunsOf(Stretch(Ordered(i), p, M), M[1])[j]]]

\* C9 as stated: wherever the ordered sequence holds a declared count tag k
\* with value N followed by N well-formed runs, groups[k] is those runs.
GroupIsTheRunsAfterCount ==
    \A i \in Emitted : \A k \in DOMAIN Declared(i) : \A p \in 1..Len(Ordered(i)) :
        HoldsRuns(Ordered(i), p, k, Declared(i)[k].field_tags) =>
            GroupIsRuns(i, p, k, Declared(i)[k].field_tags)

\* C9: when a declared count tag k that is not a hot tag occurs once in the
\* ordered sequence, with value N in 1..100 and followed by N runs of member
\* tags each beginning with M[0], groups[k] is the list of those N runs in
\* order, each with its (tag, value) pairs in wire order.
GroupIsTheRunsAfterSoleCount ==
    \A i \in Emitted : \A k \in DOMAIN Declared(i) : \A p \in 1..Len(Ordered(i)) :
        ( /\ HoldsRuns(Ordered(i), p, k, Declared(i)[k].field_tags)
          /\ ~IsHotTag(k)
          /\ \A q \in 1..Len(Ordered(i)) : Ordered(i)[q][1] = k => q = p )
        => GroupIsRuns(i, p, k, Declared(i)[k].field_tags)

\* 453=2 followed by the runs (448=a, 447=e) and (448=a), which end the
\* message: groups[453] is the two runs.
GroupIsTheRunsAfterSoleCountWitness ==
    /\ Emitted = {1, 2}
    /\ Len(Ordered(1)) = 5
    /\ HoldsRuns(Ordered(1), 2, 453, <<448, 447>>)
    /\ Cell(1, GROUPS_COLUMN) =
          [type |-> "MAP",
           val  |-> (453 :> << [type |-> "MAP",
                                entries |-> << <<448, B(<<"a">>)>>, <<447, B(<<"e">>)>> >>],
                               [type |-> "MAP", entries |-> << <<448, B(<<"a">>)>> >>] >>)]

\* The tags a row can have a group for: those of the message and those any
\* message of the dictionary declares as count tags.
CountTagCandidates(i) ==
    {Ordered(i)[p][1] : p \in 1..Len(Ordered(i))}
    \cup UNION {DOMAIN rw_bind.dictionary.messages[t].groups :
                   t \in DOMAIN rw_bind.dictionary.messages}

\* The value is a run of digits denoting a number in 1..100.
IsSmallPositive(value) ==
    /\ value # <<>>
    /\ \A j \in 1..Len(value) : IsDigit(value[j])
    /\ \E N \in 1..MAX_GROUP_COUNT : StripZeros(value) = Decimal(N)

\* The value begins, after white space and an optional '+', with a run of
\* digits denoting a number in 1..100; whatever follows the digits is ignored.
BeginsSmallPositive(value) ==
    \E a \in 0..Len(value) : \E b \in a + 1..Len(value) :
        /\ \A j \in 1..a : IsSpace(value[j]) \/ (j = a /\ value[j] = PLUS)
        /\ \A j \in a + 1..b : IsDigit(value[j])
        /\ b < Len(value) => ~IsDigit(value[b + 1])
        /\ \E N \in 1..MAX_GROUP_COUNT : StripZeros(SubSeq(value, a + 1, b)) = Decimal(N)

\* C10 as stated: groups has an entry for k iff k is declared for the type of
\* the message and is in the overflow map with a small positive integer.
GroupPresentIffDeclaredAndCounted ==
    \A i \in Emitted : \A k \in CountTagCandidates(i) :
        HasGroup(i, k) <=> /\ k \in DOMAIN Declared(i)
                           /\ k \in DOMAIN Overflow(i)
                           /\ IsSmallPositive(Overflow(i)[k])

\* The tag that follows the first occurrence of k in the ordered sequence is
\* one of the member tags M.
MemberFollowsFirst(ordered, k, M) ==
    \E p \in 1..Len(ordered) - 1 :
        /\ ordered[p][1] = k
        /\ \A q \in 1..p - 1 : ordered[q][1] # k
        /\ \E m \in 1..Len(M) : M[m] = ordered[p + 1][1]

\* C10: groups has an entry for k iff k is declared for the type of the
\* message, is in the overflow map with a value that begins with an integer in
\* 1..100, and the first occurrence of k in the ordered sequence is followed by
\* a member tag of the group.
GroupPresentIffDeclaredCountedAndStarted ==
    \A i \in Emitted : \A k \in CountTagCandidates(i) :
        HasGroup(i, k) <=> /\ k \in DOMAIN Declared(i)
                           /\ k \in DOMAIN Overflow(i)
                           /\ BeginsSmallPositive(Overflow(i)[k])
                           /\ MemberFollowsFirst(Ordered(i), k, Declared(i)[k].field_tags)

\* A declared count tag with the value "2x" followed by a member tag has an
\* entry; the declared count tag 78, with the value "1" and no member after
\* it, has none.
GroupPresentIffDeclaredCountedAndStartedWitness ==
    /\ Emitted = {1, 2}
    /\ HasGroup(1, 453)
    /\ Overflow(1)[453] = B(<<"2","x">>)
    /\ 78 \in DOMAIN Declared(1) /\ 78 \in DOMAIN Overflow(1)
    /\ IsSmallPositive(Overflow(1)[78])
    /\ ~HasGroup(1, 78)

----------------------------------------------------------------------------
(* The host calling ReadFixScan until the first empty batch *)

MaxFileLines == 3

MaxFiles == 3

\* What a file is made of: a blank line, a message, a line that is no message
\* and ends in CRLF; and what may follow its last '\n'.
FileUnits == { <<LF>>, B(<<"3","5","=","D","\n">>), B(<<"x","\r","\n">>) }

FileTails == { <<>>, B(<<"3","5","=","D">>) }

FirstFiles ==
    {Flatten(units) \o tail : units \in SeqsUpTo(FileUnits, MaxFileLines), tail \in FileTails}

\* The files that may follow the first one: an empty file, a terminated
\* message, an unterminated line.
LaterFiles == { <<>>, B(<<"3","5","=","D","\n">>), B(<<"x">>) }

\* The bytes as reads of BUFFER_SIZE bytes deliver them.
RECURSIVE FullReads(_)
FullReads(bytes) ==
    IF Len(bytes) <= BUFFER_SIZE THEN (IF bytes = <<>> THEN <<>> ELSE <<bytes>>)
    ELSE <<SubSeq(bytes, 1, BUFFER_SIZE)>> \o FullReads(SubSeq(bytes, BUFFER_SIZE + 1, Len(bytes)))

ScanFileLists ==
    {<<first>> \o rest : first \in FirstFiles, rest \in SeqsUpTo(LaterFiles, MaxFiles - 1)}

ScanInit ==
    /\ ovf = "wrap"
    /\ TokIdle
    /\ FrIdle
    /\ RowIdle
    /\ SideIdle
    /\ \E files \in ScanFileLists :
          sc_bind = BindOf(PIPE, [f \in 1..Len(files) |-> FullReads(files[f])])
    /\ sc_gstate = ReadFixInitGlobal(<<>>, <<0, 21, 22>>)
    /\ sc_lstate = ClosedReader
    /\ sc_rows = <<>>
    /\ sc_calls = 0
    /\ sc_done = FALSE
    /\ sc_output = <<>>
    /\ sc_interrupted = FALSE
    /\ sc_pc = "idle"

\* The host calls ReadFixScan once more; an empty batch is its end of data.
\* The call runs up to its read loop: it returns an empty batch when no file
\* is open and none is left to claim.
HostScan ==
    /\ ~sc_done
    /\ sc_pc = "idle"
    /\ \E c \in {ReadFixScanClaim(sc_bind, sc_gstate, sc_lstate)} :
          /\ sc_gstate' = c.gstate
          /\ sc_lstate' = c.lstate
          /\ sc_pc' = IF c.more THEN "read" ELSE "idle"
          /\ sc_done' = ~c.more
          /\ sc_output' = IF c.more THEN sc_output ELSE <<>>
          /\ sc_calls' = IF c.more THEN sc_calls ELSE sc_calls + 1
    /\ UNCHANGED <<ovf, tokVars, frVars, rowVars, sc_bind, sc_rows, sc_interrupted, sideVars>>

\* The call runs its read loop, sets the cardinality and returns.
HostScanRead ==
    /\ sc_pc = "read"
    /\ \E r \in {ReadFixScanRead(sc_bind, sc_gstate, sc_lstate, ovf)} :
          /\ sc_gstate' = r.gstate
          /\ sc_lstate' = r.lstate
          /\ sc_rows' = sc_rows \o r.rows
          /\ sc_done' = (r.rows = <<>> \/ r.trapped)
          /\ sc_output' = r.rows
    /\ sc_calls' = sc_calls + 1
    /\ sc_pc' = "idle"
    /\ UNCHANGED <<ovf, tokVars, frVars, rowVars, sc_bind, sc_interrupted, sideVars>>

ScanNext == HostScan \/ HostScanRead

SpecScan == ScanInit /\ [][ScanNext]_vars

\* The rows emitted so far for file f.
RowsOf(f) == SelectSeq(sc_rows, LAMBDA r : r.file = f)

\* The framed lines of file f, and the numbers (from 1) of the non-empty ones.
LinesOf(f) == FrameRef(Flatten(sc_bind.files[f]))

RECURSIVE Ascending(_)
Ascending(S) == IF S = {} THEN <<>> ELSE <<Min(S)>> \o Ascending(S \ {Min(S)})

NonEmptyLineNumbers(f) == Ascending({n \in 1..Len(LinesOf(f)) : LinesOf(f)[n] # <<>>})

\* File f has been read to its end.
ReadToEnd(f) ==
    \/ f = sc_lstate.current_file /\ sc_lstate.file_done
    \/ f <= sc_gstate.file_index /\ f # sc_lstate.current_file

\* C1 as stated: when the host has seen the first empty batch, every file of
\* the list has one row for each of its non-empty lines.
ScanEmitsEveryLineOfEveryFile ==
    sc_done =>
        \A f \in 1..Len(sc_bind.files) : Len(RowsOf(f)) = Len(NonEmptyLineNumbers(f))

\* C2: the rows of a file are, in order, its non-empty framed lines: the j-th
\* row comes from the j-th non-empty line and its raw_message is that line;
\* once the file is read to its end there is a row for every non-empty line.
ScanRowsAreTheNonEmptyLines ==
    \A f \in 1..Len(sc_bind.files) :
        /\ Len(RowsOf(f)) <= Len(NonEmptyLineNumbers(f))
        /\ \A j \in 1..Len(RowsOf(f)) :
              /\ RowsOf(f)[j].line_number = NonEmptyLineNumbers(f)[j]
              /\ RowsOf(f)[j].out[2] = Varchar(LinesOf(f)[NonEmptyLineNumbers(f)[j]])
        /\ ReadToEnd(f) => Len(RowsOf(f)) = Len(NonEmptyLineNumbers(f))

\* A file with a blank line, a line that is no message and two messages, the
\* last one unterminated, read to its end in two batches: three rows, the one
\* of the failed line with its parse_error.
ScanRowsAreTheNonEmptyLinesWitness ==
    /\ sc_calls = 2
    /\ ReadToEnd(1)
    /\ Len(LinesOf(1)) = 4
    /\ LinesOf(1)[1] = <<>>
    /\ Len(RowsOf(1)) = STANDARD_VECTOR_SIZE + 1
    /\ RowsOf(1)[1].out = << NullValue, Varchar(B(<<"x">>)),
                             Varchar(<<"Invalid tag format (missing '=')">>) >>
    /\ RowsOf(1)[3].out = << Varchar(B(<<"D">>)), Varchar(B(<<"3","5","=","D">>)), NullValue >>

----------------------------------------------------------------------------
(* The instances of a group and the count its tag declares *)

\* The value begins, after white space and an optional '+', with a run of
\* digits denoting N; whatever follows the digits is ignored.
BeginsWithCount(value, N) ==
    \E a \in 0..Len(value) : \E b \in a + 1..Len(value) :
        /\ \A j \in 1..a : IsSpace(value[j]) \/ (j = a /\ value[j] = PLUS)
        /\ \A j \in a + 1..b : IsDigit(value[j])
        /\ b < Len(value) => ~IsDigit(value[b + 1])
        /\ StripZeros(SubSeq(value, a + 1, b)) = Decimal(N)

\* The list of instances groups holds for k in the row of scan i.
GroupList(i, k) == Cell(i, GROUPS_COLUMN).val[k]

\* C11: for every count tag k present in groups, the list of instances has at
\* least one and at most min(declared count, 100) instances, the declared
\* count being the number the overflow map's value for k begins with, and no
\* instance is empty.
GroupLengthWithinCount ==
    \A i \in Emitted : \A k \in CountTagCandidates(i) :
        HasGroup(i, k) =>
            /\ Len(GroupList(i, k)) >= 1
            /\ k \in DOMAIN Overflow(i)
            /\ \E N \in 1..MAX_GROUP_COUNT :
                   /\ BeginsWithCount(Overflow(i)[k], N)
                   /\ Len(GroupList(i, k)) <= Min({N, MAX_GROUP_COUNT})
            /\ \A j \in 1..Len(GroupList(i, k)) : GroupList(i, k)[j].entries # <<>>

\* The count tag declares one instance and two runs of member tags follow it:
\* the list holds the first run only.
GroupLengthWithinCountWitness ==
    /\ Emitted = {1, 2}
    /\ HasGroup(1, 453)
    /\ Overflow(1)[453] = B(<<"1">>)
    /\ \E p \in 1..Len(Ordered(1)) :
           /\ Ordered(1)[p][1] = 453
           /\ Len(RunsOf(Stretch(Ordered(1), p, Declared(1)[453].field_tags), 448)) = 2
    /\ Len(GroupList(1, 453)) = 1

----------------------------------------------------------------------------
(* The counts that make a group be passed over *)

MaxCountSegments == 3

\* Count tags with an unparseable value, a value that only begins with an
\* integer, a negative, a zero, an excessive and a good value, the hot tag 58
\* as a count tag, and member tags.
CountSegments ==
    { B(<<"4","5","3","=","x">>), B(<<"4","5","3","=","2","x">>),
      B(<<"4","5","3","=","-","1">>), B(<<"4","5","3","=","0">>),
      B(<<"4","5","3","=","1","0","1">>), B(<<"4","5","3","=","1">>),
      B(<<"5","8","=","1">>), B(<<"4","4","8","=","a">>), B(<<"4","4","7","=","e">>) }

CountLines(d) ==
    {JoinBy(<<B(<<"3","5","=","8">>)>> \o segs, d) :
         segs \in SeqsUpTo(CountSegments, MaxCountSegments)}

CountInit ==
    /\ ovf = "wrap"
    /\ TokIdle
    /\ FrIdle
    /\ ScanIdle
    /\ SideIdle
    /\ rw_bind = BindOf(PIPE, <<>>)
    /\ rw_line \in CountLines(PIPE)
    /\ rw_gstates = <<ReadFixInitGlobal(<<>>, <<20>>), ReadFixInitGlobal(<<0>>, <<0, 19, 20>>)>>
    /\ rw_rows = <<>>

SpecCount == CountInit /\ [][RowNext]_vars

\* The integer a value begins with, as the set of its [neg, digits, stop]:
\* white space, an optional sign, then the longest run of digits, which is not
\* empty and ends at stop.  The set is empty when the value begins with no
\* integer.
LeadingInteger(value) ==
    {[neg |-> a > 0 /\ value[a] = MINUS, digits |-> SubSeq(value, a + 1, b), stop |-> b] :
        <<a, b>> \in {ab \in (0..Len(value)) \X (1..Len(value)) :
                        /\ ab[1] < ab[2]
                        /\ \A j \in 1..ab[1] :
                               IsSpace(value[j]) \/ (j = ab[1] /\ value[j] \in {PLUS, MINUS})
                        /\ \A j \in ab[1] + 1..ab[2] : IsDigit(value[j])
                        /\ ab[2] < Len(value) => ~IsDigit(value[ab[2] + 1])}}

\* The value as a whole is not an integer: white space, an optional sign and
\* digits up to its end.
CountUnparseable(value) == \A r \in LeadingInteger(value) : r.stop # Len(value)

\* The value does not begin with an integer, or the integer it begins with is
\* zero or negative, or is greater than 100 (one that does not fit an int
\* included); bytes after the integer do not count.
CountUnusable(value) ==
    \/ LeadingInteger(value) = {}
    \/ \E r \in LeadingInteger(value) : r.neg \/ StripZeros(r.digits) = <<CH0>>
    \/ \E r \in LeadingInteger(value) :
           DigitsLess(Decimal(MAX_GROUP_COUNT), StripZeros(r.digits))

\* C12 as stated: a count tag that is absent from the overflow map, or whose
\* value there is not parseable as an integer, is zero or negative, or is
\* greater than 100, is never a key of groups, whatever member tags follow it.
UnparseableCountSkipsGroup ==
    \A i \in Emitted : \A k \in CountTagCandidates(i) :
        (\/ k \notin DOMAIN Overflow(i)
         \/ CountUnparseable(Overflow(i)[k])
         \/ CountUnusable(Overflow(i)[k])) => ~HasGroup(i, k)

\* C12: a count tag that is absent from the overflow map, or whose value there
\* does not begin with an integer, or begins with one that is zero or negative
\* or greater than 100, is never a key of groups, whatever member tags follow
\* it; a value that begins with an integer in 1..100 and goes on with other
\* bytes is read as that integer.
UnusableCountSkipsGroup ==
    \A i \in Emitted : \A k \in CountTagCandidates(i) :
        (k \notin DOMAIN Overflow(i) \/ CountUnusable(Overflow(i)[k])) => ~HasGroup(i, k)

\* The declared count tag 453 has the value 101 and is followed by two member
\* tags; groups is null.
UnusableCountSkipsGroupWitness ==
    /\ Emitted = {1, 2}
    /\ Len(Ordered(1)) = 4
    /\ Ordered(1)[2] = <<453, B(<<"1","0","1">>)>>
    /\ Ordered(1)[3][1] = 448
    /\ Ordered(1)[4][1] = 447
    /\ 453 \in DOMAIN Declared(1)
    /\ Cell(1, GROUPS_COLUMN) = NullValue

----------------------------------------------------------------------------
(* The typed columns of a row and the diagnostics of parse_error *)

MaxTypedSegments == 2

\* For MsgSeqNum, SendingTime and Price: a value that converts (for Price one
\* that is a double exactly and one that is rounded), values that do not, and
\* an empty value.  The SendingTime values are a full timestamp, one
\* with a fraction, one with the hour 24 and one of 16 bytes.
TypedSegments ==
    { B(<<"3","4","=","7">>), B(<<"3","4","=","x">>), B(<<"3","4","=","7","x">>),
      B(<<"3","4","=">>),
      B(<<"5","2","=","2","0","2","3","1","2","1","5","-","1","0",":","3","0",":","0","0">>),
      B(<<"5","2","=","2","0","2","3","1","2","1","5","-","1","0",":","3","0",":","0","0",".","1">>),
      B(<<"5","2","=","2","0","2","3","1","2","1","5","-","2","4",":","3","0",":","0","0">>),
      B(<<"5","2","=","2","0","2","3","1","2","1","5","-","1","0",":","3","0",":","0">>),
      B(<<"5","2","=">>),
      B(<<"4","4","=","1",".","5">>), B(<<"4","4","=","0",".","1">>), B(<<"4","4","=","x">>),
      B(<<"4","4","=","1",".","5","x">>), B(<<"4","4","=">>) }

TypedLines(d) ==
    {JoinBy(<<B(<<"3","5","=","D">>)>> \o segs, d) :
         segs \in SeqsUpTo(TypedSegments, MaxTypedSegments)}

TypedInit ==
    /\ ovf = "wrap"
    /\ TokIdle
    /\ FrIdle
    /\ ScanIdle
    /\ SideIdle
    /\ rw_bind = BindOf(PIPE, <<>>)
    /\ rw_line \in TypedLines(PIPE)
    /\ rw_gstates = <<ReadFixInitGlobal(<<>>, <<0, 3, 4, 12, 22>>),
                      ReadFixInitGlobal(<<0, 1>>, <<4, 22, 3>>)>>
    /\ rw_rows = <<>>

SpecTyped == TypedInit /\ [][RowNext]_vars

\* parse_error of the row of scan i holds a diagnostic that names column c.
NamesColumn(i, c) ==
    /\ Cell(i, PARSE_ERROR_COLUMN).type = "VARCHAR"
    /\ \E j \in 1..Len(Cell(i, PARSE_ERROR_COLUMN).val) :
           ToString(Cell(i, PARSE_ERROR_COLUMN).val[j]) = ToString(FieldName(c))

\* The whole value is an integer of 64 bits: white space, an optional sign and
\* digits up to its end.
IsInt64Text(value) ==
    \E r \in LeadingInteger(value) :
        /\ r.stop = Len(value)
        /\ ~DigitsLess(IF r.neg THEN INT64_MIN_DIGITS ELSE INT64_MAX_DIGITS,
                       StripZeros(r.digits))

\* Digits with at most one '.', one digit at least.
IsMantissaText(s) ==
    /\ \A j \in 1..Len(s) : IsDigit(s[j]) \/ s[j] = DOT
    /\ Cardinality({j \in 1..Len(s) : s[j] = DOT}) <= 1
    /\ \E j \in 1..Len(s) : IsDigit(s[j])

\* Nothing, or 'e' or 'E', an optional sign and digits.
IsExponentText(s) ==
    \/ s = <<>>
    \/ /\ Len(s) >= 2
       /\ s[1] \in {Ascii["e"], 69}
       /\ \E from \in 2..Len(s) :
             /\ from = 3 => s[2] \in {PLUS, MINUS}
             /\ from \in {2, 3}
             /\ \A j \in from..Len(s) : IsDigit(s[j])

\* The whole value is a decimal number: white space, an optional sign, a
\* mantissa and an optional exponent.  The values used here are within the
\* range of a double.
IsDoubleText(value) ==
    \E a \in 0..Len(value) : \E b \in a..Len(value) :
        /\ \A j \in 1..a : IsSpace(value[j]) \/ (j = a /\ value[j] \in {PLUS, MINUS})
        /\ IsMantissaText(SubSeq(value, a + 1, b))
        /\ IsExponentText(SubSeq(value, b + 1, Len(value)))

\* The two digits at the 0-based index at denote a number in lo..hi.
TwoDigitsIn(s, at, lo, hi) ==
    /\ IsDigit(s[at + 1]) /\ IsDigit(s[at + 2])
    /\ (s[at + 1] - CH0) * 10 + (s[at + 2] - CH0) \in lo..hi

\* YYYYMMDD-HH:MM:SS, optionally followed by '.' and one to three digits, with
\* year in 1900..2100, month in 1..12, day in 1..31, hour in 0..23, minute and
\* second in 0..59.
IsFixTimestamp(s) ==
    /\ Len(s) = 17 \/ Len(s) \in 19..21
    /\ \A j \in 1..4 : IsDigit(s[j])
    /\ (s[1] - CH0) * 1000 + (s[2] - CH0) * 100 + (s[3] - CH0) * 10 + (s[4] - CH0)
           \in 1900..2100
    /\ TwoDigitsIn(s, 4, 1, 12)
    /\ TwoDigitsIn(s, 6, 1, 31)
    /\ s[9] = MINUS
    /\ TwoDigitsIn(s, 9, 0, 23)
    /\ s[12] = Ascii[":"]
    /\ TwoDigitsIn(s, 12, 0, 59)
    /\ s[15] = Ascii[":"]
    /\ TwoDigitsIn(s, 15, 0, 59)
    /\ Len(s) > 17 => s[18] = DOT /\ \A j \in 19..Len(s) : IsDigit(s[j])

\* The value converts to the type of the typed column c.
Coercible(c, value) ==
    IF c = MSG_SEQ_NUM_COLUMN THEN IsInt64Text(value)
    ELSE IF c = SENDING_TIME_COLUMN THEN IsFixTimestamp(value)
    ELSE IsDoubleText(value)

\* For the typed column c of the row of scan i: parse_error names c iff the
\* tag has a value that does not convert, and the column is null then and
\* when the value is empty.
DiagnosticIffFails(i, c) ==
    /\ NamesColumn(i, c) <=> /\ SlotSet(TypedSlot(i, c))
                             /\ ~Coercible(c, TypedSlot(i, c).val)
    /\ (~SlotSet(TypedSlot(i, c)) \/ ~Coercible(c, TypedSlot(i, c).val))
           => Cell(i, c) = NullValue

\* C13 as stated: for each projected typed hot column, parse_error contains a
\* diagnostic naming the column iff the tag's value is non-empty and its
\* coercion fails; the column is null in that case and when the value is
\* empty, and an empty value adds no diagnostic.
TypedDiagnosticIffCoercionFails ==
    \A i \in Emitted : \A c \in TypedColumns :
        (Projected(i, c) /\ Projected(i, PARSE_ERROR_COLUMN)) => DiagnosticIffFails(i, c)

\* The same for the typed columns other than SendingTime.
TypedDiagnosticIffCoercionFailsButTime ==
    \A i \in Emitted : \A c \in TypedColumns \ {SENDING_TIME_COLUMN} :
        (Projected(i, c) /\ Projected(i, PARSE_ERROR_COLUMN)) => DiagnosticIffFails(i, c)

----------------------------------------------------------------------------
(* The two timestamp coercions applied to one value *)

\* A value of SendingTime from its fields and what follows the seconds.
Stamp(date, dash, hour, c1, minute, c2, second, tail) ==
    B(date) \o B(dash) \o B(hour) \o B(c1) \o B(minute) \o B(c2) \o B(second) \o B(tail)

StampYears == { <<"1","8","9","9">>, <<"1","9","0","0">>, <<"2","0","2","4">>,
                <<"2","1","0","0">>, <<"2","1","0","1">>, <<"2","0","x","3">> }

StampMonths == { <<"0","0">>, <<"0","1">>, <<"0","2">>, <<"0","4">>, <<"1","2">>, <<"1","3">> }

StampDays == { <<"0","0">>, <<"0","1">>, <<"2","9">>, <<"3","0">>, <<"3","1">>, <<"3","2">> }

StampHours == { <<"0","0">>, <<"2","3">>, <<"2","4">>, <<"1","x">> }

StampSixties == { <<"0","0">>, <<"5","9">>, <<"6","0">> }

StampTails == { <<>>, <<".">>, <<".","1">>, <<".","1","2">>, <<".","1","2","3">>,
                <<".","1","2","3","4">>, <<"x">>, <<".","x">>, <<"1">>,
                <<".","0">>, <<".","0","5">>, <<".","0","0","7">>, <<".","9","9","9">>,
                <<".","5","x">> }

StampMarks == { <<"-">>, <<":">>, <<"x">> }

\* The values tried: a good timestamp with its date varied, with its time
\* varied, with its separators varied, with something after the seconds, and
\* values of fewer than 17 bytes.
\* Two bytes above 127 (a two-byte UTF-8 letter).
HighBytes == <<195, 169>>

StampInputs ==
    {Stamp(y \o m \o d, <<"-">>, <<"1","0">>, <<":">>, <<"3","0">>, <<":">>, <<"0","0">>, <<>>) :
         y \in {<<"2","0","2","3">>, <<"2","0","2","4">>}, m \in StampMonths, d \in StampDays}
    \cup {Stamp(y \o <<"1","2","1","5">>, <<"-">>, <<"1","0">>, <<":">>, <<"3","0">>, <<":">>,
                <<"0","0">>, <<>>) : y \in StampYears}
    \cup {Stamp(<<"2","0","2","3","1","2","1","5">>, <<"-">>, h, <<":">>, mi, <<":">>, sec, <<>>) :
              h \in StampHours, mi \in StampSixties, sec \in StampSixties}
    \cup {Stamp(<<"2","0","2","3","1","2","1","5">>, a, <<"1","0">>, b, <<"3","0">>, c,
                <<"0","0">>, <<>>) : a \in StampMarks, b \in StampMarks, c \in StampMarks}
    \cup {Stamp(<<"2","0","2","3","1","2","1","5">>, <<"-">>, <<"1","0">>, <<":">>, <<"3","0">>,
                <<":">>, <<"0","0">>, t) : t \in StampTails}
    \cup { B(<<"2","0","2","3","1","2","1","5","-","1","0",":","3","0",":","0">>),
           B(<<"2","0","2","3">>) }
    \cup { B(<<"2">>) \o HighBytes \o B(<<"1","1","2","1","5","-","1","0",":","3","0",":","0","0">>),
           B(<<"2","0","2","3","1","2","1","5","-">>) \o HighBytes \o B(<<":","3","0",":","0","0">>),
           B(<<"2","0","2","3">>) \o HighBytes \o B(<<"1","5","-","1","0",":","3","0",":","0","0">>),
           B(<<"2","0","2","3","1","2","1","5","-","1","0",":","3","0",":">>) \o HighBytes }

ConvInit ==
    /\ ovf = "wrap"
    /\ TokIdle
    /\ FrIdle
    /\ RowIdle
    /\ ScanIdle
    /\ BindIdle
    /\ DelimIdle
    /\ DictIdle
    /\ ClaimIdle
    /\ cv_input \in StampInputs
    /\ cv_conv = <<>>
    /\ cv_field = <<>>

\* ConvertToTimestamp is called on the value.
ConvConvert ==
    /\ cv_conv = <<>>
    /\ cv_conv' = <<ConvertToTimestamp(SlotOf(cv_input), "SendingTime")>>
    /\ UNCHANGED <<ovf, tokVars, frVars, rowVars, scanVars, cv_input, cv_field, bindVars, dlVars, dictVars, claimVars>>

\* set_timestamp_field is called on the value.
ConvSetField ==
    /\ cv_field = <<>>
    /\ cv_field' = <<TimestampField(SlotOf(cv_input), "SendingTime")>>
    /\ UNCHANGED <<ovf, tokVars, frVars, rowVars, scanVars, cv_input, cv_conv, bindVars, dlVars, dictVars, claimVars>>

ConvNext == ConvConvert \/ ConvSetField

SpecStamp == ConvInit /\ [][ConvNext]_vars

\* set_timestamp_field stored a timestamp.
FieldAccepted == cv_field # <<>> /\ cv_field[1].value.type = "TIMESTAMP"

\* C14 as stated: the timestamp coercion of a row succeeds on exactly the
\* values of the form YYYYMMDD-HH:MM:SS[.d[d[d]]] with every field in its
\* range; every other non-empty value fails.
StampAcceptedIffWellFormed ==
    cv_field # <<>> => (FieldAccepted <=> IsFixTimestamp(cv_input))

\* The same for ConvertToTimestamp.
ConvertAcceptedIffWellFormed ==
    cv_conv # <<>> => (cv_conv[1].ok <=> IsFixTimestamp(cv_input))

\* What ConvertToTimestamp does accept: 17 bytes of that form naming a date
\* that exists, whatever follows them.
ConvertAcceptedIffPrefixWellFormed ==
    cv_conv # <<>> =>
        ( cv_conv[1].ok
          <=> /\ Len(cv_input) >= 17
              /\ IsFixTimestamp(SubSeq(cv_input, 1, 17))
              /\ DateIsValid(Parse4Digits(cv_input, 0), Parse2Digits(cv_input, 4),
                             Parse2Digits(cv_input, 6)) )

----------------------------------------------------------------------------
(* The sub-second part of an accepted timestamp *)

\* The timestamps the two coercions stored for the value.
StoredStamps ==
    (IF FieldAccepted THEN {cv_field[1].value} ELSE {})
    \cup (IF cv_conv # <<>> /\ cv_conv[1].ok THEN {cv_conv[1].value} ELSE {})

\* The value ends in '.' and one to three digits.
HasFraction(s) ==
    /\ Len(s) \in 19..21
    /\ s[18] = DOT
    /\ \A j \in 19..Len(s) : IsDigit(s[j])

\* The fraction digits of the value, zeros added on the right up to three.
PaddedFraction(s) ==
    SubSeq(SubSeq(s, 19, Len(s)) \o <<CH0, CH0>>, 1, 3)

\* C15: an accepted timestamp has a sub-second part of zero when the value
\* has no fraction; a fraction of one to three digits, padded on the right
\* with zeros to three digits, is its milliseconds, kept as microseconds; the
\* 17-byte form without a fraction is accepted.
FractionIsMilliseconds ==
    /\ \A ts \in StoredStamps :
           /\ Len(cv_input) = 17 => ts.micros = 0
           /\ HasFraction(cv_input) =>
                  \E ms \in 0..999 : /\ StripZeros(PaddedFraction(cv_input)) = Decimal(ms)
                                     /\ ts.micros = ms * 1000
    /\ ( /\ Len(cv_input) = 17
         /\ IsFixTimestamp(cv_input)
         /\ DateIsValid(Parse4Digits(cv_input, 0), Parse2Digits(cv_input, 4),
                        Parse2Digits(cv_input, 6)) )
       => /\ cv_field # <<>> => FieldAccepted
          /\ cv_conv # <<>> => cv_conv[1].ok

\* Both coercions read '.1' as 100 milliseconds.
FractionIsMillisecondsWitness ==
    /\ cv_input = B(<<"2","0","2","3","1","2","1","5","-","1","0",":","3","0",":","0","0",
                      ".","1">>)
    /\ FieldAccepted
    /\ cv_field[1].value.micros = 100000
    /\ cv_conv # <<>>
    /\ cv_conv[1].ok
    /\ cv_conv[1].value.micros = 100000

----------------------------------------------------------------------------
(* fix_dictionary.hpp: FixDictionaryLoader *)

\* The XML document is kept as its elements: fields is the <field> children
\* of <fields>, each [number, name]; components the <component> children,
\* each [name, fields, groups]; messages the <message> children, each
\* [name, msgtype, children].  A <group> is [kind, name, fields, groups] and
\* a <field> or <component> inside a message [kind, name, required].

\* A FixDictionary with nothing loaded.
EmptyDictionary ==
    [loaded |-> TRUE, fields |-> <<>>, messages |-> <<>>, components |-> <<>>,
     name_to_tag |-> <<>>]

\* dict.name_to_tag[name] read through operator[]: the tag, 0 for a name
\* that is no key yet ...
TagOfName(dict, name) ==
    IF name \in DOMAIN dict.name_to_tag THEN dict.name_to_tag[name] ELSE 0

\* ... and the dictionary after the read: operator[] has made the name a key.
Touch(dict, name) ==
    IF name \in DOMAIN dict.name_to_tag THEN dict
    ELSE [dict EXCEPT !.name_to_tag = MapPut(@, name, 0)]

\* LoadFields
RECURSIVE LoadFields(_, _)
LoadFields(dict, fields_root) ==
    IF fields_root = <<>> THEN dict
    ELSE LoadFields([dict EXCEPT
                        !.name_to_tag = MapPut(@, fields_root[1].name, fields_root[1].number),
                        !.fields = MapPut(@, fields_root[1].number,
                                          [tag  |-> fields_root[1].number,
                                           name |-> fields_root[1].name])],
                    Tail(fields_root))

\* The loop over <field> children that pushes name_to_tag[fname] for each.
\* Returns [dict, tags].
RECURSIVE NamedTags(_, _, _)
NamedTags(dict, names, tags) ==
    IF names = <<>> THEN [dict |-> dict, tags |-> tags]
    ELSE NamedTags(Touch(dict, names[1]), Tail(names), Append(tags, TagOfName(dict, names[1])))

RECURSIVE LoadGroup(_, _)
RECURSIVE LoadGroups(_, _, _)

\* g.subgroups[sub_def.count_tag] = sub_def, or c.groups / m.groups likewise.
GroupsAfter(r, rest, groups) ==
    LoadGroups(r.dict, rest, MapPut(groups, r.g.count_tag, r.g))

\* The loop over <group> children.  Returns [dict, groups].
LoadGroups(dict, elements, groups) ==
    IF elements = <<>> THEN [dict |-> dict, groups |-> groups]
    ELSE GroupsAfter(LoadGroup(dict, elements[1]), Tail(elements), groups)

\* The group, had the count tags of its nested groups been put in the member
\* list as well.
GroupWithNestedAsMembers(count_tag, field_tags, sub) ==
    [dict |-> sub.dict,
     g    |-> [count_tag |-> count_tag,
               field_tags |-> field_tags \o Ascending(DOMAIN sub.groups),
               subgroups |-> sub.groups]]

\* The FixGroupDef of LoadGroup: count tag, member tags, nested groups.
GroupWith(count_tag, field_tags, sub) ==
    [dict |-> sub.dict,
     g    |-> [count_tag |-> count_tag, field_tags |-> field_tags, subgroups |-> sub.groups]]

GroupAfterFields(count_tag, f, group) ==
    GroupWith(count_tag, f.tags, LoadGroups(f.dict, group.groups, <<>>))

\* LoadGroup.  Returns [dict, g].
LoadGroup(dict, group) ==
    GroupAfterFields(TagOfName(dict, group.name),
                     NamedTags(Touch(dict, group.name), group.fields, <<>>), group)

ComponentWith(name, f, gr) ==
    [gr.dict EXCEPT !.components =
        MapPut(@, name, [name |-> name, field_tags |-> f.tags, groups |-> gr.groups])]

ComponentAfterFields(comp, f) ==
    ComponentWith(comp.name, f, LoadGroups(f.dict, comp.groups, <<>>))

\* LoadComponents
RECURSIVE LoadComponents(_, _)
LoadComponents(dict, components_root) ==
    IF components_root = <<>> THEN dict
    ELSE LoadComponents(ComponentAfterFields(components_root[1],
                                             NamedTags(dict, components_root[1].fields, <<>>)),
                        Tail(components_root))

\* The groups of a component written over those of the message.
MergeGroups(into, from) ==
    [k \in (DOMAIN into) \cup (DOMAIN from) |-> IF k \in DOMAIN from THEN from[k] ELSE into[k]]

\* The expansion with every reference taken as not required.
ExpandComponentAsOptional(dict, msg, comp_ref) ==
    IF comp_ref.name \notin DOMAIN dict.components THEN msg
    ELSE [msg EXCEPT
             !.optional_fields = @ \o dict.components[comp_ref.name].field_tags,
             !.groups = MergeGroups(@, dict.components[comp_ref.name].groups)]

\* ExpandComponent
ExpandComponent(dict, msg, comp_ref) ==
    IF comp_ref.name \notin DOMAIN dict.components THEN msg
    ELSE [msg EXCEPT
             !.required_fields = IF comp_ref.required
                                 THEN @ \o dict.components[comp_ref.name].field_tags ELSE @,
             !.optional_fields = IF comp_ref.required
                                 THEN @ ELSE @ \o dict.components[comp_ref.name].field_tags,
             !.groups = MergeGroups(@, dict.components[comp_ref.name].groups)]

RECURSIVE LoadChildren(_, _, _)

ChildrenAfterGroup(r, m, rest) ==
    LoadChildren(r.dict, [m EXCEPT !.groups = MapPut(@, r.g.count_tag, r.g)], rest)

\* The loop of LoadMessages over the children of one <message>.
\* Returns [dict, m].
LoadChildren(dict, m, children) ==
    IF children = <<>> THEN [dict |-> dict, m |-> m]
    ELSE IF children[1].kind = "field"
         THEN LoadChildren(Touch(dict, children[1].name),
                           IF children[1].required
                           THEN [m EXCEPT !.required_fields =
                                     Append(@, TagOfName(dict, children[1].name))]
                           ELSE [m EXCEPT !.optional_fields =
                                     Append(@, TagOfName(dict, children[1].name))],
                           Tail(children))
    ELSE IF children[1].kind = "group"
         THEN ChildrenAfterGroup(LoadGroup(dict, children[1]), m, Tail(children))
    ELSE LoadChildren(dict, ExpandComponent(dict, m, children[1]), Tail(children))

RECURSIVE LoadMessages(_, _)

MessagesAfter(r, rest) ==
    LoadMessages([r.dict EXCEPT !.messages = MapPut(@, r.m.msg_type, r.m)], rest)

\* LoadMessages
LoadMessages(dict, messages_root) ==
    IF messages_root = <<>> THEN dict
    ELSE MessagesAfter(LoadChildren(dict,
                                    MessageDef(messages_root[1].name, messages_root[1].msgtype,
                                               <<>>),
                                    messages_root[1].children),
                       Tail(messages_root))

\* LoadBase on a document that parses: fields, then components, then messages.
LoadBase(doc) ==
    LoadMessages(LoadComponents(LoadFields(EmptyDictionary, doc.fields), doc.components),
                 doc.messages)

----------------------------------------------------------------------------
(* read_fix_function.cpp: ReadFixBind *)

\* The arguments are kept as [files, doc, parses, delimiter, rtags, tagIds]:
\* files is what GlobFiles returned, doc the dictionary document and parses
\* whether LoadBase gets through it; a named parameter is <<>> when it is
\* not given and <<its value>> when it is.

\* The names of the standard columns, in column order.
StandardNames ==
    <<"MsgType", "SenderCompID", "TargetCompID", "MsgSeqNum", "SendingTime", "ClOrdID",
      "OrderID", "ExecID", "Symbol", "Side", "ExecType", "OrdStatus", "Price", "OrderQty",
      "CumQty", "LeavesQty", "LastPx", "LastQty", "Text", "tags", "groups", "raw_message",
      "parse_error">>

\* The types of the standard columns.
StandardTypes ==
    [c \in 1..23 |->
        IF c - 1 = MSG_SEQ_NUM_COLUMN THEN "BIGINT"
        ELSE IF c - 1 = SENDING_TIME_COLUMN THEN "TIMESTAMP"
        ELSE IF c - 1 \in PRICE_COLUMN..LAST_QTY_COLUMN THEN "DOUBLE"
        ELSE IF c - 1 = TAGS_COLUMN THEN "MAP(INTEGER, VARCHAR)"
        ELSE IF c - 1 = GROUPS_COLUMN THEN "MAP(INTEGER, LIST(MAP(INTEGER, VARCHAR)))"
        ELSE "VARCHAR"]

\* A BinderException leaves ReadFixBind: no bind data, names untouched.
Thrown(message) ==
    [thrown |-> TRUE, message |-> message, bind_data |-> <<>>, names |-> <<>>,
     return_types |-> <<>>]

\* The delimiter left at its default whatever the parameter says.
DelimiterOfDefault(param) == [thrown |-> FALSE, message |-> <<>>, delimiter |-> PIPE]

\* The delimiter parameter.  Returns [thrown, message, delimiter].
DelimiterOf(param) ==
    IF param = <<>> THEN [thrown |-> FALSE, message |-> <<>>, delimiter |-> PIPE]
    ELSE IF param[1] = <<>>
         THEN [thrown |-> TRUE, message |-> <<"delimiter cannot be empty">>, delimiter |-> PIPE]
    ELSE IF Len(param[1]) = 1
         THEN [thrown |-> FALSE, message |-> <<>>, delimiter |-> param[1][1]]
    ELSE IF param[1] = B(<<"\\", "x", "0", "1">>)
         THEN [thrown |-> FALSE, message |-> <<>>, delimiter |-> SOH]
    ELSE [thrown |-> TRUE,
          message |-> <<"delimiter must be a single character or '\\x01' for SOH">>,
          delimiter |-> PIPE]

\* The entry added whether or not its tag was added before.
AddCustomTagAgain(c, tag_name, tag_num) ==
    [c EXCEPT !.custom_tags = Append(@, <<tag_name, tag_num>>), !.added = @ \cup {tag_num}]

\* custom_tags and added_tags after {tag_name, tag_num} is added if new.
AddCustomTag(c, tag_name, tag_num) ==
    IF tag_num \in c.added THEN c
    ELSE [c EXCEPT !.custom_tags = Append(@, <<tag_name, tag_num>>),
                   !.added = @ \cup {tag_num}]

\* The loop over rtags.  c is [thrown, message, custom_tags, added].
RECURSIVE RtagsLoop(_, _, _)
RtagsLoop(dict, rtags_list, c) ==
    IF rtags_list = <<>> THEN c
    ELSE IF rtags_list[1] \notin DOMAIN dict.name_to_tag
         THEN [c EXCEPT !.thrown = TRUE,
                        !.message = <<"Invalid tag name in rtags: '", rtags_list[1],
                                      "'. Tag not found in FIX dictionary.">>]
    ELSE RtagsLoop(dict, Tail(rtags_list),
                   AddCustomTag(c, rtags_list[1], dict.name_to_tag[rtags_list[1]]))

\* The name of a tagIds column: the dictionary's, or Tag and the number.
TagIdName(dict, tag_num) ==
    IF tag_num \notin DOMAIN dict.fields THEN "Tag" \o ToString(tag_num)
    ELSE dict.fields[tag_num].name

\* The loop over tagIds.
RECURSIVE TagIdsLoop(_, _, _)
TagIdsLoop(dict, tagIds_list, c) ==
    IF tagIds_list = <<>> THEN c
    ELSE TagIdsLoop(dict, Tail(tagIds_list),
                    AddCustomTag(c, TagIdName(dict, tagIds_list[1]), tagIds_list[1]))

\* The schema and the bind data returned.
BindResult(input, dict, delimiter, c) ==
    [thrown       |-> FALSE,
     message      |-> <<>>,
     bind_data    |-> [files |-> input.files, delimiter |-> delimiter, dictionary |-> dict,
                       custom_tags |-> c.custom_tags],
     names        |-> StandardNames \o [i \in 1..Len(c.custom_tags) |-> c.custom_tags[i][1]],
     return_types |-> StandardTypes \o [i \in 1..Len(c.custom_tags) |-> "VARCHAR"]]

BindAfterRtags(input, dict, delimiter, c) ==
    IF c.thrown THEN Thrown(c.message)
    ELSE BindResult(input, dict, delimiter,
                    IF input.tagIds = <<>> THEN c ELSE TagIdsLoop(dict, input.tagIds[1], c))

BindAfterDelimiter(input, dict, d) ==
    IF d.thrown THEN Thrown(d.message)
    ELSE BindAfterRtags(input, dict, d.delimiter,
                        IF input.rtags = <<>>
                        THEN [thrown |-> FALSE, message |-> <<>>, custom_tags |-> <<>>,
                              added |-> {}]
                        ELSE RtagsLoop(dict, input.rtags[1],
                                       [thrown |-> FALSE, message |-> <<>>,
                                        custom_tags |-> <<>>, added |-> {}]))

\* ReadFixBind
ReadFixBind(input) ==
    IF ~input.parses THEN Thrown(<<"Failed to load FIX dictionary from '%s': %s">>)
    ELSE BindAfterDelimiter(input, LoadBase(input.doc), DelimiterOf(input.delimiter))

----------------------------------------------------------------------------
(* The bind of a query *)

\* The longest rtags list and the longest tagIds list.
MaxSelectors == 2

FieldEl(name, required) == [kind |-> "field", name |-> name, required |-> required]

GroupEl(name, fields, groups) ==
    [kind |-> "group", name |-> name, fields |-> fields, groups |-> groups]

ComponentEl(name, required) == [kind |-> "component", name |-> name, required |-> required]

DocFields ==
    << [number |-> 1, name |-> "Account"], [number |-> 55, name |-> "Symbol"],
       [number |-> 448, name |-> "PartyID"], [number |-> 453, name |-> "NoPartyIDs"],
       [number |-> 802, name |-> "NoPartySubIDs"], [number |-> 523, name |-> "PartySubID"] >>

NewOrderSingle(children) ==
    [name |-> "NewOrderSingle", msgtype |-> B(<<"D">>), children |-> children]

ExecutionReport(children) ==
    [name |-> "ExecutionReport", msgtype |-> B(<<"8">>), children |-> children]

\* A dictionary document with the given components and messages.
Doc(components, messages) ==
    [fields |-> DocFields, components |-> components, messages |-> messages]

\* The group of parties, with the given members after PartyID.
Parties(more) ==
    GroupEl("NoPartyIDs", <<"PartyID">> \o more,
            <<GroupEl("NoPartySubIDs", <<"PartySubID">>, <<>>)>>)

\* The documents bound: one whose every name is a field; one whose group has
\* a member "Ghost" that is no field; one whose component has it; one whose
\* message has it; one whose group is named by it.
Docs ==
    { Doc(<<>>, <<NewOrderSingle(<<FieldEl("Account", TRUE), FieldEl("Symbol", FALSE)>>),
                  ExecutionReport(<<FieldEl("Symbol", TRUE), Parties(<<>>)>>)>>),
      Doc(<<>>, <<ExecutionReport(<<FieldEl("Symbol", TRUE), Parties(<<"Ghost">>)>>)>>),
      Doc(<<[name |-> "Parties", fields |-> <<"Ghost">>, groups |-> <<Parties(<<>>)>>]>>,
          <<ExecutionReport(<<ComponentEl("Parties", TRUE), ComponentEl("Absent", FALSE)>>),
            NewOrderSingle(<<ComponentEl("Parties", FALSE)>>)>>),
      Doc(<<>>, <<NewOrderSingle(<<FieldEl("Account", TRUE), FieldEl("Ghost", FALSE)>>)>>),
      Doc(<<>>, <<ExecutionReport(<<GroupEl("Ghost", <<"PartyID">>, <<>>)>>)>>) }

BindNames == {"Account", "Symbol", "Ghost", "Nowhere"}

BindNumbers == {1, 55, 9999, 0}

\* A named parameter: not given, or one of the values.
Optional(values) == {<<>>} \cup {<<v>> : v \in values}

DelimiterStrings ==
    { <<>>, B(<<"|">>), B(<<"^">>), B(<<"\\", "x", "0", "1">>), B(<<"a", "b">>) }

\* The arguments bound: every document with every pair of selector lists,
\* and the first document with every delimiter option, parsing or not.
BindInputs ==
    { [files |-> <<"a.fix">>, doc |-> d, parses |-> TRUE, delimiter |-> <<>>,
       rtags |-> r, tagIds |-> t] :
          d \in Docs, r \in Optional(SeqsUpTo(BindNames, MaxSelectors)),
          t \in Optional(SeqsUpTo(BindNumbers, MaxSelectors)) }
    \cup
    { [files |-> <<"a.fix">>, doc |-> Doc(<<>>, <<>>), parses |-> ok, delimiter |-> dl,
       rtags |-> r, tagIds |-> <<>>] :
          ok \in BOOLEAN, dl \in Optional(DelimiterStrings),
          r \in {<<>>, <<<<"Nowhere">>>>} }

BindInit ==
    /\ ovf = "wrap"
    /\ TokIdle
    /\ FrIdle
    /\ RowIdle
    /\ ScanIdle
    /\ ConvIdle
    /\ DelimIdle
    /\ DictIdle
    /\ ClaimIdle
    /\ bd_input \in BindInputs
    /\ bd_out = <<>>

\* The planner calls ReadFixBind.
BindCall ==
    /\ bd_out = <<>>
    /\ bd_out' = <<ReadFixBind(bd_input)>>
    /\ UNCHANGED <<ovf, tokVars, frVars, rowVars, scanVars, convVars, bd_input, dlVars, dictVars, claimVars>>

BindNext == BindCall

SpecBind == BindInit /\ [][BindNext]_vars

\* The names the dictionary defines as fields.
DefinedNames(doc) == {doc.fields[i].name : i \in 1..Len(doc.fields)}

\* The names of rtags, none when the parameter is not given.
RtagsOf(input) == IF input.rtags = <<>> THEN <<>> ELSE input.rtags[1]

TagIdsOf(input) == IF input.tagIds = <<>> THEN <<>> ELSE input.tagIds[1]

\* Some name of rtags is no field of the dictionary.
HasUndefinedRtag(input) ==
    \E i \in 1..Len(RtagsOf(input)) : RtagsOf(input)[i] \notin DefinedNames(input.doc)

\* C16 as stated: the bind fails whenever rtags holds a name that is not the
\* name of a field defined in the dictionary, whatever the dictionary's
\* messages, groups and components mention.
UndefinedRtagFailsBind ==
    (bd_out # <<>> /\ HasUndefinedRtag(bd_input)) => bd_out[1].thrown

\* The names the document mentions in a group, its members and its subgroups.
RECURSIVE GroupMentions(_)
GroupMentions(g) ==
    {g.name} \cup {g.fields[i] : i \in 1..Len(g.fields)}
    \cup UNION {GroupMentions(g.groups[i]) : i \in 1..Len(g.groups)}

\* The names the document mentions anywhere outside <fields>.
Mentioned(doc) ==
    UNION {{doc.components[i].fields[j] : j \in 1..Len(doc.components[i].fields)}
           \cup UNION {GroupMentions(doc.components[i].groups[j]) :
                           j \in 1..Len(doc.components[i].groups)} :
               i \in 1..Len(doc.components)}
    \cup UNION {UNION {IF doc.messages[i].children[j].kind = "field"
                       THEN {doc.messages[i].children[j].name}
                       ELSE IF doc.messages[i].children[j].kind = "group"
                            THEN GroupMentions(doc.messages[i].children[j])
                            ELSE {} : j \in 1..Len(doc.messages[i].children)} :
                    i \in 1..Len(doc.messages)}

\* What the bind does: it fails when rtags holds a name that the document
\* neither defines nor mentions, and a name it only mentions selects tag 0.
UnmentionedRtagFailsBind ==
    /\ ( /\ bd_out # <<>>
         /\ \E i \in 1..Len(RtagsOf(bd_input)) :
                RtagsOf(bd_input)[i] \notin DefinedNames(bd_input.doc)
                                            \cup Mentioned(bd_input.doc) )
       => bd_out[1].thrown
    /\ ( /\ bd_out # <<>>
         /\ ~bd_out[1].thrown
         /\ HasUndefinedRtag(bd_input) )
       => \E i \in 1..Len(bd_out[1].bind_data.custom_tags) :
              bd_out[1].bind_data.custom_tags[i][2] = 0

----------------------------------------------------------------------------
(* The custom columns of the schema *)

\* The number of the field the document defines under the name.
NumberOf(doc, name) ==
    doc.fields[CHOOSE i \in 1..Len(doc.fields) : doc.fields[i].name = name].number

\* The name a tagIds entry stands for: the defined field's, or Tag<N>.
NameOfNumber(doc, n) ==
    IF \E i \in 1..Len(doc.fields) : doc.fields[i].number = n
    THEN doc.fields[CHOOSE i \in 1..Len(doc.fields) : doc.fields[i].number = n].name
    ELSE "Tag" \o ToString(n)

\* Every selection of the query as <<name, tag>>: rtags first, then tagIds.
Mentions(input) ==
    [i \in 1..Len(RtagsOf(input)) |->
        <<RtagsOf(input)[i], NumberOf(input.doc, RtagsOf(input)[i])>>]
    \o [i \in 1..Len(TagIdsOf(input)) |->
        <<NameOfNumber(input.doc, TagIdsOf(input)[i]), TagIdsOf(input)[i]>>]

\* The positions at which a tag is mentioned for the first time.
FirstMentions(ms) == {i \in 1..Len(ms) : \A j \in 1..(i - 1) : ms[j][2] # ms[i][2]}

\* The k-th smallest member of a set of positions.
Nth(I, k) == CHOOSE i \in I : Cardinality({j \in I : j < i}) = k - 1

\* The bind has what it needs but for the custom columns: a dictionary that
\* loads, a delimiter that is accepted and only defined names in rtags.
Bindable(input) ==
    /\ input.parses
    /\ ~DelimiterOf(input.delimiter).thrown
    /\ ~HasUndefinedRtag(input)

\* C17: the custom columns of a bind are the distinct tags selected by rtags
\* and then tagIds, one column per tag at the place of its first mention; a
\* column of rtags has the given name, a column of tagIds the dictionary's
\* field name or Tag<N>; they follow the 23 standard columns; a number the
\* dictionary does not define never fails the bind.
CustomColumnsAreFirstMentions ==
    (bd_out # <<>> /\ Bindable(bd_input)) =>
        /\ ~bd_out[1].thrown
        /\ Len(bd_out[1].bind_data.custom_tags)
               = Cardinality(FirstMentions(Mentions(bd_input)))
        /\ \A k \in 1..Len(bd_out[1].bind_data.custom_tags) :
               bd_out[1].bind_data.custom_tags[k]
                   = Mentions(bd_input)[Nth(FirstMentions(Mentions(bd_input)), k)]
        /\ Len(bd_out[1].names) = FIRST_CUSTOM_COLUMN + Len(bd_out[1].bind_data.custom_tags)
        /\ SubSeq(bd_out[1].names, 1, FIRST_CUSTOM_COLUMN) = StandardNames
        /\ \A k \in 1..Len(bd_out[1].bind_data.custom_tags) :
               /\ bd_out[1].names[FIRST_CUSTOM_COLUMN + k]
                      = bd_out[1].bind_data.custom_tags[k][1]
               /\ bd_out[1].return_types[FIRST_CUSTOM_COLUMN + k] = "VARCHAR"

\* Symbol is selected by name and again by number, with an undefined number
\* after it: two columns, Symbol and Tag9999.
CustomColumnsAreFirstMentionsWitness ==
    /\ bd_out # <<>>
    /\ bd_input.rtags = << <<"Symbol">> >>
    /\ bd_input.tagIds = << <<55, 9999>> >>
    /\ ~bd_out[1].thrown
    /\ bd_out[1].bind_data.custom_tags = << <<"Symbol", 55>>, <<"Tag9999", 9999>> >>
    /\ SubSeq(bd_out[1].names, 24, 25) = <<"Symbol", "Tag9999">>

----------------------------------------------------------------------------
(* The custom columns of a row *)

\* The longest line, in segments.
MaxCustomSegments == 3

\* Segments of the selected tags 55 (hot), 9 and 9999 (not hot) with and
\* without a value, of tags whose digits exceed an int and wrap to 9 and to
\* 55, and a segment that stops the tokenizer.
CustomSegments ==
    { B(<<"3","5","=","D">>), B(<<"5","5","=","A","B">>), B(<<"5","5","=">>),
      B(<<"9","=","a","b">>), B(<<"9","=","7">>), B(<<"9","=">>), B(<<"x">>),
      B(<<"4","2","9","4","9","6","7","3","0","5","=","P">>),
      B(<<"4","2","9","4","9","6","7","3","5","1","=","S">>) }

CustomLines(d) ==
    {JoinBy(segs, d) : segs \in SeqsUpTo(CustomSegments, MaxCustomSegments)} \ {<<>>}

\* The custom columns of the bind: rtags = ['Symbol'], tagIds = [9, 9999].
CustomBind(d) ==
    [files |-> <<>>, delimiter |-> d, dictionary |-> TestDictionary,
     custom_tags |-> << <<"Symbol", 55>>, <<"Tag9", 9>>, <<"Tag9999", 9999>> >>]

CustomInit ==
    /\ ovf \in OverflowModes
    /\ TokIdle
    /\ FrIdle
    /\ ScanIdle
    /\ SideIdle
    /\ rw_bind = CustomBind(PIPE)
    /\ rw_line \in CustomLines(PIPE)
    /\ rw_gstates = <<ReadFixInitGlobal(<<>>, <<23, 24, 25, 22>>),
                      ReadFixInitGlobal(<<0, 1>>, <<25, 23, 8>>)>>
    /\ rw_rows = <<>>

SpecCustom == CustomInit /\ [][RowNext]_vars

\* The segments the tokenizer gets through: those before the first segment
\* that stops it, all of them when none does.
TokenizedSegments ==
    SubSeq(LineSegments, 1,
           Min({i \in 1..Len(LineSegments) : ~WellFormed(LineSegments[i])}
               \cup {Len(LineSegments) + 1}) - 1)

\* The custom columns of the bind, as positions of custom_tags.
CustomColumns == 1..Len(rw_bind.custom_tags)

\* The value of custom column k of scan i is the value the message gives
\* its tag last, as raw bytes, and null when that value is empty or no
\* tokenized segment has the tag.
CustomIsRaw(i, k) ==
    /\ Cell(i, FIRST_CUSTOM_COLUMN + k - 1)
           = StringField(LastValue(TokenizedSegments, rw_bind.custom_tags[k][2]))
    /\ (\A j \in 1..Len(LineSegments) :
            ~(WellFormed(LineSegments[j])
              /\ Denotes(LineSegments[j], rw_bind.custom_tags[k][2])))
       => Cell(i, FIRST_CUSTOM_COLUMN + k - 1) = NullValue

\* C18 as stated: every custom column of every row holds the raw bytes of
\* its tag's value, from the hot slot or from the overflow map, and null when
\* the tag does not occur in the message or its value is empty.
CustomColumnIsRawValue ==
    \A i \in Emitted : \A k \in CustomColumns :
        Projected(i, FIRST_CUSTOM_COLUMN + k - 1) => CustomIsRaw(i, k)

\* The same on the lines whose tags all fit an int.
CustomColumnIsRawValueWithinInt ==
    TagsFitInt(rw_line, rw_bind.delimiter) =>
        \A i \in Emitted : \A k \in CustomColumns :
            Projected(i, FIRST_CUSTOM_COLUMN + k - 1) => CustomIsRaw(i, k)

----------------------------------------------------------------------------
(* One message written with two delimiters *)

\* The longest message, in (tag, value) pairs.
MaxPairs == 2

PairTags == {35, 55, 9}

PairValues == { <<>>, B(<<"D">>), B(<<"a", "^">>) }

\* A delimiter option with the byte it stands for.
DelimiterOptions ==
    { [option |-> B(<<"|">>), byte |-> PIPE],
      [option |-> B(<<"\\", "x", "0", "1">>), byte |-> SOH],
      [option |-> B(<<"^">>), byte |-> Ascii["^"]],
      [option |-> B(<<",">>), byte |-> Ascii[","]],
      [option |-> B(<<"=">>), byte |-> EQ],
      [option |-> B(<<"5">>), byte |-> Ascii["5"]] }

\* The segment of a pair: the tag in decimal, '=', the value.
SegmentOf(pair) == Decimal(pair[1]) \o <<EQ>> \o pair[2]

\* The message of the pairs with the byte between its segments.
Joined(pairs, byte) == JoinBy([i \in 1..Len(pairs) |-> SegmentOf(pairs[i])], byte)

DelimInit ==
    /\ ovf = "wrap"
    /\ TokIdle
    /\ FrIdle
    /\ RowIdle
    /\ ScanIdle
    /\ ConvIdle
    /\ BindIdle
    /\ DictIdle
    /\ ClaimIdle
    /\ dl_pairs \in SeqsUpTo(PairTags \X PairValues, MaxPairs)
    /\ \E a \in DelimiterOptions, b \in DelimiterOptions :
          /\ a.byte < b.byte
          /\ dl_delims = <<a, b>>
    /\ dl_out = << <<>>, <<>> >>

\* The message written with option k is read: the bind takes the option and
\* Parse is called with the delimiter of the bind.
DelimTokenize(k) ==
    /\ dl_out[k] = <<>>
    /\ \E b \in {DelimiterOf(<<dl_delims[k].option>>)} :
          dl_out' = [dl_out EXCEPT ![k] =
                        <<[thrown |-> b.thrown,
                           tok    |-> Parse(Joined(dl_pairs, dl_delims[k].byte),
                                            b.delimiter, ovf)]>>]
    /\ UNCHANGED <<ovf, tokVars, frVars, rowVars, scanVars, convVars, bindVars,
                   dl_pairs, dl_delims, dictVars, claimVars>>

DelimNext == DelimTokenize(1) \/ DelimTokenize(2)

SpecDelim == DelimInit /\ [][DelimNext]_vars

\* The ordered tag sequence the tokenizer left under option k.
TagSequence(k) ==
    [i \in 1..Len(dl_out[k][1].tok.msg.all_tags_ordered) |->
        dl_out[k][1].tok.msg.all_tags_ordered[i][1]]

\* The message has been read under both options, both accepted by the bind.
BothRead ==
    /\ dl_out # <<>>
    /\ dl_out[1] # <<>> /\ ~dl_out[1][1].thrown
    /\ dl_out[2] # <<>> /\ ~dl_out[2][1].thrown

\* The byte occurs in no value of the message.
InNoValue(byte) ==
    \A i \in 1..Len(dl_pairs) : \A j \in 1..Len(dl_pairs[i][2]) : dl_pairs[i][2][j] # byte

\* The byte occurs in no segment of the message: in no tag, in no value, and
\* it is not '='.
InNoSegment(byte) ==
    \A i \in 1..Len(dl_pairs) :
        \A j \in 1..Len(SegmentOf(dl_pairs[i])) : SegmentOf(dl_pairs[i])[j] # byte

\* C19 as stated: two accepted delimiters of which neither occurs inside a
\* value give the same ordered tag sequence.
DelimiterChoiceKeepsTagsOutsideValues ==
    (BothRead /\ InNoValue(dl_delims[1].byte) /\ InNoValue(dl_delims[2].byte))
        => TagSequence(1) = TagSequence(2)

\* C19: two accepted delimiters of which neither is '=' nor occurs inside a
\* tag or a value of the message give the same ordered tag sequence.
DelimiterChoiceKeepsTags ==
    (BothRead /\ InNoSegment(dl_delims[1].byte) /\ InNoSegment(dl_delims[2].byte))
        => TagSequence(1) = TagSequence(2)

\* 35=D and 55=a^ written with SOH and with '|': tags 35, 55 both times.
DelimiterChoiceKeepsTagsWitness ==
    /\ BothRead
    /\ dl_pairs = << <<35, B(<<"D">>)>>, <<55, B(<<"a", "^">>)>> >>
    /\ dl_delims[1].byte = SOH
    /\ dl_delims[2].byte = PIPE
    /\ TagSequence(1) = <<35, 55>>
    /\ TagSequence(2) = <<35, 55>>

----------------------------------------------------------------------------
(* The overflow map and the hot tags *)

\* The keys of the tags column of the row of scan i, none when it is null.
TagsKeys(i) ==
    IF Cell(i, TAGS_COLUMN) = NullValue THEN {} ELSE DOMAIN Cell(i, TAGS_COLUMN).val

\* C20: at every point of tokenizing no key of the overflow map is a hot
\* tag, and so no key of the tags column of an emitted row is one, whether
\* or not the tokenizer got through the line.
OverflowMapHasNoHotTag ==
    /\ DOMAIN tk.msg.other_tags \cap HotTags = {}
    /\ \A i \in Emitted :
           /\ DOMAIN rw_rows[i].parsed.other_tags \cap HotTags = {}
           /\ Projected(i, TAGS_COLUMN) => TagsKeys(i) \cap HotTags = {}

\* The tokenizer has put tag 3 in the overflow map and then stopped at a
\* segment without '='.
OverflowMapHasNoHotTagWitness ==
    /\ tk.pc = "done"
    /\ ~tk.success
    /\ tk.msg.parse_error = "Invalid tag format (missing '=')"
    /\ Len(tk.msg.all_tags_ordered) = 1
    /\ DOMAIN tk.msg.other_tags = {3}

----------------------------------------------------------------------------
(* fix_dictionary.hpp: FixDictionaryLoader::ApplyOverlay *)

\* The overlay's fields loaded and its messages left out.
ApplyOverlayFieldsOnly(dict, doc) == LoadFields(dict, doc.fields)

\* ApplyOverlay on a document that parses: its fields, then its messages,
\* loaded into the dictionary; its components are not read.
ApplyOverlay(dict, doc) == LoadMessages(LoadFields(dict, doc.fields), doc.messages)

----------------------------------------------------------------------------
(* A dictionary loaded and overlaid *)

\* The most overlays applied to one base.
MaxOverlays == 2

\* The overlays: one that adds field 25036 and redefines message D with it;
\* one that gives tag 1 the name Acct; one that gives the name Account the
\* tag 2 and redefines message 8 without its group; an empty one; one that
\* redefines message D with a group and a component reference and brings a
\* component of its own.
Overlays ==
    { [fields     |-> << [number |-> 25036, name |-> "ResponseMode"] >>,
       components |-> <<>>,
       messages   |-> <<NewOrderSingle(<<FieldEl("ResponseMode", TRUE),
                                         FieldEl("Account", FALSE)>>)>>],
      [fields     |-> << [number |-> 1, name |-> "Acct"] >>,
       components |-> <<>>,
       messages   |-> <<>>],
      [fields     |-> << [number |-> 2, name |-> "Account"] >>,
       components |-> <<>>,
       messages   |-> <<ExecutionReport(<<FieldEl("Account", TRUE)>>)>>],
      [fields     |-> <<>>, components |-> <<>>, messages |-> <<>>],
      [fields     |-> <<>>,
       components |-> <<[name |-> "Extra", fields |-> <<"Symbol">>, groups |-> <<>>]>>,
       messages   |-> <<NewOrderSingle(<<Parties(<<>>), ComponentEl("Parties", TRUE),
                                         ComponentEl("Extra", TRUE),
                                         FieldEl("Symbol", FALSE)>>)>>] }

\* A base document whose messages reference components between their own
\* fields, required and not.
ComponentDoc ==
    Doc(<<[name |-> "Instrument", fields |-> <<"Symbol", "Account">>, groups |-> <<>>],
          [name |-> "Parties", fields |-> <<"PartyID">>, groups |-> <<Parties(<<>>)>>]>>,
        <<NewOrderSingle(<<FieldEl("Account", TRUE), ComponentEl("Instrument", TRUE),
                           FieldEl("PartySubID", TRUE), ComponentEl("Parties", FALSE),
                           FieldEl("NoPartySubIDs", FALSE)>>),
          ExecutionReport(<<ComponentEl("Parties", TRUE), FieldEl("Symbol", FALSE),
                            ComponentEl("Instrument", FALSE), ComponentEl("Absent", TRUE)>>)>>)

DictDocs == Docs \cup {ComponentDoc}

DictInit ==
    /\ ovf = "wrap"
    /\ TokIdle
    /\ FrIdle
    /\ RowIdle
    /\ ScanIdle
    /\ ConvIdle
    /\ BindIdle
    /\ DelimIdle
    /\ ClaimIdle
    /\ dc_base \in DictDocs
    /\ dc_overlays \in SeqsUpTo(Overlays, MaxOverlays)
    /\ dc_dict = <<>>
    /\ dc_applied = 0

\* LoadBase is called on the base document.
DictLoadBase ==
    /\ dc_dict = <<>>
    /\ dc_dict' = <<LoadBase(dc_base)>>
    /\ UNCHANGED <<ovf, tokVars, frVars, rowVars, scanVars, convVars, bindVars, dlVars,
                   claimVars, dc_base, dc_overlays, dc_applied>>

\* ApplyOverlay is called on the next overlay document.
DictApplyOverlay ==
    /\ dc_dict # <<>>
    /\ dc_applied < Len(dc_overlays)
    /\ dc_dict' = <<ApplyOverlay(dc_dict[1], dc_overlays[dc_applied + 1])>>
    /\ dc_applied' = dc_applied + 1
    /\ UNCHANGED <<ovf, tokVars, frVars, rowVars, scanVars, convVars, bindVars, dlVars,
                   claimVars, dc_base, dc_overlays>>

DictNext == DictLoadBase \/ DictApplyOverlay

SpecDict == DictInit /\ [][DictNext]_vars

\* The tags a message element lists as direct fields with the given flag,
\* under the name-to-tag mapping of the dictionary.
DirectFields(dict, children, required) ==
    [i \in 1..Len(SelectSeq(children,
                            LAMBDA c : c.kind = "field" /\ c.required = required)) |->
        dict.name_to_tag[SelectSeq(children,
                            LAMBDA c : c.kind = "field" /\ c.required = required)[i].name]]

\* The overlay applied last.
LastOverlay == dc_overlays[dc_applied]

\* The message element references a component.
HasComponentRef(el) == \E j \in 1..Len(el.children) : el.children[j].kind = "component"

\* The message element has a group child.
HasGroupChild(el) == \E j \in 1..Len(el.children) : el.children[j].kind = "group"

\* The dictionary holds the field element's definition under its tag, and
\* its name maps to its tag.
HoldsField(dict, f) ==
    /\ f.number \in DOMAIN dict.fields
    /\ dict.fields[f.number] = [tag |-> f.number, name |-> f.name]
    /\ f.name \in DOMAIN dict.name_to_tag
    /\ dict.name_to_tag[f.name] = f.number

\* The dictionary holds the message element's definition under its type:
\* its name, its direct fields in order (when it references no component),
\* and no group but those the element lists or takes from a component.
HoldsMessage(dict, el) ==
    /\ el.msgtype \in DOMAIN dict.messages
    /\ dict.messages[el.msgtype].name = el.name
    /\ dict.messages[el.msgtype].msg_type = el.msgtype
    /\ ~HasComponentRef(el) =>
          /\ dict.messages[el.msgtype].required_fields = DirectFields(dict, el.children, TRUE)
          /\ dict.messages[el.msgtype].optional_fields = DirectFields(dict, el.children, FALSE)
    /\ \A k \in DOMAIN dict.messages[el.msgtype].groups :
          \E j \in 1..Len(el.children) :
              \/ /\ el.children[j].kind = "group"
                 /\ dict.name_to_tag[el.children[j].name] = k
              \/ /\ el.children[j].kind = "component"
                 /\ el.children[j].name \in DOMAIN dict.components
                 /\ k \in DOMAIN dict.components[el.children[j].name].groups

\* C21: after an overlay is applied the dictionary holds, for every field
\* tag of the overlay, the overlay's definition; for every message type of
\* the overlay, the overlay's message in place of the base one; and every
\* field name of the overlay maps to the overlay's tag.
OverlayWins ==
    dc_applied > 0 =>
        /\ \A i \in 1..Len(LastOverlay.fields) : HoldsField(dc_dict[1], LastOverlay.fields[i])
        /\ \A i \in 1..Len(LastOverlay.messages) :
               HoldsMessage(dc_dict[1], LastOverlay.messages[i])

\* The overlay that renames tag 1 and the one that redefines message 8 were
\* applied to a base whose message 8 had a group: tag 1 is Acct, Account is
\* tag 2, and message 8 has the overlay's one field and no group.
OverlayWinsWitness ==
    /\ dc_applied = 2
    /\ \E i \in 1..Len(dc_base.messages) :
           dc_base.messages[i].msgtype = B(<<"8">>) /\ HasGroupChild(dc_base.messages[i])
    /\ dc_dict[1].fields[1].name = "Acct"
    /\ dc_dict[1].name_to_tag["Account"] = 2
    /\ dc_dict[1].messages[B(<<"8">>)].required_fields = <<2>>
    /\ DOMAIN dc_dict[1].messages[B(<<"8">>)].groups = {}

----------------------------------------------------------------------------
(* The name-to-tag mapping *)

\* No two names of the mapping have the same tag.
Injective(name_to_tag) ==
    \A a \in DOMAIN name_to_tag : \A b \in DOMAIN name_to_tag :
        name_to_tag[a] = name_to_tag[b] => a = b

\* C22 as stated: after a base load and any number of overlays the
\* name-to-tag mapping is injective.
NameToTagInjective == dc_dict # <<>> => Injective(dc_dict[1].name_to_tag)

\* The mapping of the base documents here is injective until an overlay is
\* applied.
NameToTagInjectiveBeforeOverlay ==
    (dc_dict # <<>> /\ dc_applied = 0) => Injective(dc_dict[1].name_to_tag)

----------------------------------------------------------------------------
(* Components expanded into messages *)

\* The document defines a component of the name.
DefinesComponent(doc, name) ==
    \E i \in 1..Len(doc.components) : doc.components[i].name = name

\* The component element of the name.
ComponentOf(doc, name) ==
    doc.components[CHOOSE i \in 1..Len(doc.components) : doc.components[i].name = name]

\* The tags of the names, in order, under the dictionary's name-to-tag.
TagsOf(dict, names) == [i \in 1..Len(names) |-> dict.name_to_tag[names[i]]]

\* What the children of a message element put in the list with the given
\* flag, child by child: a direct field its tag, a reference to a defined
\* component the tags of the fields the component lists directly.
RECURSIVE Expansion(_, _, _, _)
Expansion(dict, doc, children, required) ==
    IF children = <<>> THEN <<>>
    ELSE (IF children[1].kind = "field" /\ children[1].required = required
          THEN <<dict.name_to_tag[children[1].name]>>
          ELSE IF /\ children[1].kind = "component"
                  /\ children[1].required = required
                  /\ DefinesComponent(doc, children[1].name)
               THEN TagsOf(dict, ComponentOf(doc, children[1].name).fields)
               ELSE <<>>)
         \o Expansion(dict, doc, Tail(children), required)

\* The message holds every group of every defined component it references,
\* under the group's count tag and with the group's members.
HoldsComponentGroups(dict, doc, el) ==
    \A j \in 1..Len(el.children) :
        (el.children[j].kind = "component" /\ DefinesComponent(doc, el.children[j].name)) =>
            \A g \in 1..Len(ComponentOf(doc, el.children[j].name).groups) :
                /\ dict.name_to_tag[ComponentOf(doc, el.children[j].name).groups[g].name]
                       \in DOMAIN dict.messages[el.msgtype].groups
                /\ dict.messages[el.msgtype].groups[
                       dict.name_to_tag[ComponentOf(doc, el.children[j].name).groups[g].name]
                   ].field_tags
                       = TagsOf(dict, ComponentOf(doc, el.children[j].name).groups[g].fields)

\* C26: after a base load every message that references a defined component
\* has the component's directly listed field tags in its required list when
\* the reference is required and in its optional list otherwise, at the
\* place of the reference among the message's other fields, and has each
\* group of the component in its group map under the group's count tag.
ComponentsExpandInPlace ==
    (dc_dict # <<>> /\ dc_applied = 0) =>
        \A i \in 1..Len(dc_base.messages) :
            HasComponentRef(dc_base.messages[i]) =>
                /\ dc_dict[1].messages[dc_base.messages[i].msgtype].required_fields
                       = Expansion(dc_dict[1], dc_base, dc_base.messages[i].children, TRUE)
                /\ dc_dict[1].messages[dc_base.messages[i].msgtype].optional_fields
                       = Expansion(dc_dict[1], dc_base, dc_base.messages[i].children, FALSE)
                /\ HoldsComponentGroups(dc_dict[1], dc_base, dc_base.messages[i])

\* Message D of the component document: Account, then Instrument's Symbol
\* and Account, then PartySubID are required; Parties' PartyID and then
\* NoPartySubIDs are optional; the group of Parties is under 453.
ComponentsExpandInPlaceWitness ==
    /\ dc_dict # <<>>
    /\ dc_applied = 0
    /\ dc_base = ComponentDoc
    /\ dc_dict[1].messages[B(<<"D">>)].required_fields = <<1, 55, 1, 523>>
    /\ dc_dict[1].messages[B(<<"D">>)].optional_fields = <<448, 802>>
    /\ 453 \in DOMAIN dc_dict[1].messages[B(<<"D">>)].groups

----------------------------------------------------------------------------
(* read_fix_function.cpp: workers claiming files from the shared list *)

MaxWorkers == 3

MaxClaimFiles == 3

\* A worker before its first claim: no file handle.
WorkerStart == [pc |-> "start", position |-> 0, current_file |-> ""]

\* A lock that lets every worker in.
MutexFreeAlways(mutex) == TRUE

\* lock_guard<mutex> lock(gstate.lock) blocks until no worker holds the mutex.
MutexFree(mutex) == mutex = 0

\* The guard goes out of scope.
Released(mutex, w) == IF mutex = w THEN 0 ELSE mutex

ClaimInit ==
    /\ ovf = "wrap"
    /\ TokIdle
    /\ FrIdle
    /\ RowIdle
    /\ ScanIdle
    /\ ConvIdle
    /\ BindIdle
    /\ DelimIdle
    /\ DictIdle
    /\ \E n \in 0..MaxClaimFiles : cl_files = [i \in 1..n |-> "f" \o ToString(i)]
    /\ cl_index = 0
    /\ cl_mutex = 0
    /\ \E n \in 1..MaxWorkers : cl_workers = [w \in 1..n |-> WorkerStart]
    /\ cl_claims = <<>>

ClaimUnchanged ==
    UNCHANGED <<ovf, tokVars, frVars, rowVars, scanVars, convVars, bindVars, dlVars,
                dictVars, cl_files>>

\* if (!lstate.file_handle) { lock_guard<mutex> lock(gstate.lock);
ClaimLock(w) ==
    /\ cl_workers[w].pc = "start"
    /\ MutexFree(cl_mutex)
    /\ cl_mutex' = w
    /\ cl_workers' = [cl_workers EXCEPT ![w].pc = "locked"]
    /\ UNCHANGED <<cl_index, cl_claims>>
    /\ ClaimUnchanged

\* if (gstate.file_index >= bind_data.files.size()) { SetCardinality(0);
\* return; }  lstate.current_file = bind_data.files[gstate.file_index];
ClaimCheck(w) ==
    /\ cl_workers[w].pc = "locked"
    /\ IF cl_index >= Len(cl_files)
       THEN /\ cl_workers' = [cl_workers EXCEPT ![w].pc = "none"]
            /\ cl_mutex' = Released(cl_mutex, w)
       ELSE /\ cl_workers' = [cl_workers EXCEPT ![w] =
                                 [pc |-> "take", position |-> cl_index + 1,
                                  current_file |-> cl_files[cl_index + 1]]]
            /\ UNCHANGED cl_mutex
    /\ UNCHANGED <<cl_index, cl_claims>>
    /\ ClaimUnchanged

\* gstate.file_index++;
ClaimAdvance(w) ==
    /\ cl_workers[w].pc = "take"
    /\ cl_index' = cl_index + 1
    /\ cl_claims' = Append(cl_claims, [worker |-> w, position |-> cl_workers[w].position])
    /\ cl_workers' = [cl_workers EXCEPT ![w].pc = "open"]
    /\ UNCHANGED cl_mutex
    /\ ClaimUnchanged

\* The file is opened, the reader's fields are reset and the guard's scope ends.
ClaimOpen(w) ==
    /\ cl_workers[w].pc = "open"
    /\ cl_mutex' = Released(cl_mutex, w)
    /\ cl_workers' = [cl_workers EXCEPT ![w].pc = "reading"]
    /\ UNCHANGED <<cl_index, cl_claims>>
    /\ ClaimUnchanged

\* The file is read to its end and lstate.file_handle.reset() leaves the worker
\* without a handle: its next call claims again.
ClaimFinish(w) ==
    /\ cl_workers[w].pc = "reading"
    /\ cl_workers' = [cl_workers EXCEPT ![w].pc = "start"]
    /\ UNCHANGED <<cl_index, cl_mutex, cl_claims>>
    /\ ClaimUnchanged

ClaimNext ==
    \E w \in DOMAIN cl_workers :
        \/ ClaimLock(w)
        \/ ClaimCheck(w)
        \/ ClaimAdvance(w)
        \/ ClaimOpen(w)
        \/ ClaimFinish(w)

SpecClaim == ClaimInit /\ [][ClaimNext]_vars

\* The positions of the file list claimed so far.
ClaimedPositions == {cl_claims[i].position : i \in DOMAIN cl_claims}

\* C23: a worker between taking the lock and leaving its scope, where the
\* index is read and advanced, holds the mutex; no position of the file list
\* is claimed twice; the index never exceeds the number of files; and a worker
\* is told that no file is left only when every file has been claimed.
ClaimsAreExclusive ==
    /\ \A w \in DOMAIN cl_workers :
          cl_workers[w].pc \in {"locked", "take", "open"} => cl_mutex = w
    /\ \A i, j \in DOMAIN cl_claims :
          i # j => cl_claims[i].position # cl_claims[j].position
    /\ cl_index <= Len(cl_files)
    /\ \A w \in DOMAIN cl_workers :
          cl_workers[w].pc = "none" => ClaimedPositions = 1..Len(cl_files)

\* Three workers and two files: two workers have claimed one file each and
\* are reading, the third has been told that no file is left.
ClaimsAreExclusiveWitness ==
    /\ Len(cl_workers) = 3
    /\ Len(cl_files) = 2
    /\ \E a, b, c \in DOMAIN cl_workers :
          /\ cl_workers[a].pc = "reading" /\ cl_workers[a].current_file = "f1"
          /\ cl_workers[b].pc = "reading" /\ cl_workers[b].current_file = "f2"
          /\ cl_workers[c].pc = "none"
    /\ cl_index = 2

----------------------------------------------------------------------------
(* One call of ReadFixScan and the files it reads *)

\* C27: a call opens at most one file, so after n calls at most n files have
\* been opened, one more while a call is at its read loop; when a call has
\* returned, the rows of its batch all come from the file the reader is at;
\* and a batch that is not full, empty ones included, is returned only with
\* that file at its end, the files after it unopened.
ScanCallStaysInOneFile ==
    /\ sc_gstate.file_index <= sc_calls + (IF sc_pc = "read" THEN 1 ELSE 0)
    /\ sc_pc = "idle" =>
          \A j \in DOMAIN sc_output : sc_output[j].file = sc_lstate.current_file
    /\ (sc_pc = "idle" /\ sc_calls > 0 /\ Len(sc_output) < STANDARD_VECTOR_SIZE) =>
          /\ sc_lstate.file_done
          /\ sc_lstate.current_file = sc_gstate.file_index
          /\ \A j \in DOMAIN sc_rows : sc_rows[j].file <= sc_lstate.current_file

\* The first call has returned the one row of the first file, a batch that is
\* not full, and the second file is not opened yet.
ScanCallStaysInOneFileWitness ==
    /\ sc_pc = "idle"
    /\ sc_calls = 1
    /\ Len(sc_output) = 1
    /\ Len(sc_output) < STANDARD_VECTOR_SIZE
    /\ sc_lstate.file_done
    /\ sc_gstate.file_index = 1
    /\ Len(sc_bind.files) >= 2
    /\ sc_bind.files[2] # <<>>

----------------------------------------------------------------------------
(* The host's cancellation signal *)

\* The host sets its cancellation signal between two calls.
HostInterrupt ==
    /\ ~sc_done
    /\ sc_pc = "idle"
    /\ ~sc_interrupted
    /\ sc_interrupted' = TRUE
    /\ UNCHANGED <<ovf, tokVars, frVars, rowVars, sc_bind, sc_gstate, sc_lstate, sc_rows,
                   sc_calls, sc_done, sc_output, sc_pc, sideVars>>

CancelNext == HostScan \/ HostScanRead \/ HostInterrupt

SpecCancel == ScanInit /\ [][CancelNext]_vars

\* C24 as stated: a call of ReadFixScan that begins with the signal set
\* returns an empty batch.
ScanAfterCancelEmitsNoRows ==
    [][(sc_interrupted /\ sc_calls' = sc_calls + 1) => sc_output' = <<>>]_vars

----------------------------------------------------------------------------
(* The framed lines and the way the bytes are delivered *)

\* ReadLine called on rd until it returns false: the lines it returned.
RECURSIVE ReadAll(_)
ReadAll(rd) ==
    LET r == ReadLine(rd)
    IN  IF ~r.ret THEN <<>> ELSE <<r.line>> \o ReadAll(r.rd)

\* The lines of a file whose reads deliver the given chunks.
LinesDelivered(chunks) == ReadAll(OpenNextFile(ClosedReader, <<chunks>>, 0).rd)

\* The bytes delivered one per read.
SingleBytes(bytes) == [i \in 1..Len(bytes) |-> <<bytes[i]>>]

\* C29: the lines ReadLine has returned for a file read to its end, however
\* its bytes were delivered, are the lines it returns for the same bytes
\* delivered in reads of BUFFER_SIZE bytes and in reads of one byte.
ChunkingDoesNotChangeLines ==
    \A i \in fr_eof :
        /\ fr_out[i] = LinesDelivered(FullReads(Flatten(fr_files[i])))
        /\ fr_out[i] = LinesDelivered(SingleBytes(Flatten(fr_files[i])))

\* A line longer than one read whose '\r' and '\n' arrive in different reads.
ChunkingDoesNotChangeLinesWitness ==
    /\ 1 \in fr_eof
    /\ fr_files[1] = << B(<<"a","a">>), <<CR>>, <<LF>> >>
    /\ Len(B(<<"a","a">>) \o <<CR>>) > BUFFER_SIZE
    /\ fr_out[1] = << B(<<"a","a">>) >>
    /\ FullReads(Flatten(fr_files[1])) = << B(<<"a","a">>), <<CR, LF>> >>

----------------------------------------------------------------------------
(* Groups scanned under a dictionary loaded from a document with a nested group *)

MaxNestedSegments == 4

\* ExecutionReport declares the group NoPartyIDs (453) with the members
\* PartyID (448) and PartyIDSource (447) and the nested group NoPartySubIDs
\* (802) with the member PartySubID (523).
NestedDoc ==
    [fields     |-> DocFields \o << [number |-> 447, name |-> "PartyIDSource"] >>,
     components |-> <<>>,
     messages   |-> << ExecutionReport(
                          << GroupEl("NoPartyIDs", <<"PartyID", "PartyIDSource">>,
                                     << GroupEl("NoPartySubIDs", <<"PartySubID">>, <<>>) >>) >>) >>]

NestedBind ==
    [files |-> <<>>, delimiter |-> PIPE, dictionary |-> LoadBase(NestedDoc),
     custom_tags |-> <<>>]

NestedSegments ==
    { B(<<"4","5","3","=","2">>), B(<<"4","5","3","=","3">>),
      B(<<"4","4","8","=","a">>), B(<<"4","4","8","=","b">>), B(<<"4","4","7","=","e">>),
      B(<<"8","0","2","=","1">>), B(<<"5","2","3","=","x">>), B(<<"5","8","=","x">>) }

NestedLines(d) ==
    {JoinBy(<<B(<<"3","5","=","8">>)>> \o segs, d) :
         segs \in SeqsUpTo(NestedSegments, MaxNestedSegments)}

NestedInit ==
    /\ ovf = "wrap"
    /\ TokIdle
    /\ FrIdle
    /\ ScanIdle
    /\ SideIdle
    /\ rw_bind = NestedBind
    /\ rw_line \in NestedLines(PIPE)
    /\ rw_gstates = <<ReadFixInitGlobal(<<>>, <<20>>), ReadFixInitGlobal(<<0>>, <<0, 19, 20>>)>>
    /\ rw_rows = <<>>

SpecNested == NestedInit /\ [][RowNext]_vars

\* The entries of the instances, one after the other.
RECURSIVE FlatEntries(_)
FlatEntries(instances) ==
    IF instances = <<>> THEN <<>>
    ELSE instances[1].entries \o FlatEntries(Tail(instances))

\* The position of the first occurrence of k in the ordered sequence of row i.
FirstAt(i, k) == Min({p \in 1..Len(Ordered(i)) : Ordered(i)[p][1] = k})

\* The tags after the first occurrence of k up to the first tag that is no
\* member of the group.
MemberStretch(i, k) == Stretch(Ordered(i), FirstAt(i, k), Declared(i)[k].field_tags)

\* C25: the entries of a group are a prefix of the tags between the count tag
\* and the first tag after it that is no member; a list shorter than the
\* declared count holds that whole stretch and nothing after it; and the
\* count tag of a nested group is no member of the group.
GroupEndsAtFirstNonMember ==
    \A i \in Emitted : \A k \in DOMAIN Declared(i) :
        /\ \A n \in DOMAIN Declared(i)[k].subgroups :
              ~IsGroupField(n, Declared(i)[k].field_tags)
        /\ HasGroup(i, k) =>
              /\ IsPrefix(FlatEntries(GroupList(i, k)), MemberStretch(i, k))
              /\ Len(GroupList(i, k)) < GroupCountOf(Overflow(i)[k]).count =>
                    FlatEntries(GroupList(i, k)) = MemberStretch(i, k)

\* 453=3|448=a|802=1|448=b: the nested count tag 802 ends the group after one
\* instance of the three declared, and the 448 after it is in no instance.
GroupEndsAtFirstNonMemberWitness ==
    /\ Emitted = {1, 2}
    /\ rw_line = B(<<"3","5","=","8","|","4","5","3","=","3","|","4","4","8","=","a","|",
                     "8","0","2","=","1","|","4","4","8","=","b">>)
    /\ DOMAIN Declared(1)[453].subgroups = {802}
    /\ Declared(1)[453].field_tags = <<448, 447>>
    /\ GroupList(1, 453) = << [type |-> "MAP", entries |-> << <<448, B(<<"a">>)>> >>] >>

\* C28: in every group of a row, every entry's tag is a member tag; the first
\* member tag is in an instance only as its first entry; every instance after
\* the first begins with it; and the instances one after the other are the
\* entries of the ordered sequence that follow the first occurrence of the
\* count tag.
GroupInstancesAreOneRun ==
    \A i \in Emitted : \A k \in DOMAIN Declared(i) :
        HasGroup(i, k) =>
            LET list == GroupList(i, k)
                M    == Declared(i)[k].field_tags
                flat == FlatEntries(list)
            IN  /\ \A j \in 1..Len(list) : \A e \in 1..Len(list[j].entries) :
                      /\ \E m \in 1..Len(M) : M[m] = list[j].entries[e][1]
                      /\ e > 1 => list[j].entries[e][1] # M[1]
                      /\ (j > 1 /\ e = 1) => list[j].entries[e][1] = M[1]
                /\ FirstAt(i, k) + Len(flat) <= Len(Ordered(i))
                /\ flat = SubSeq(Ordered(i), FirstAt(i, k) + 1, FirstAt(i, k) + Len(flat))

\* 453=3|447=e|448=a|448=b: three instances, the first without the first
\* member tag, the others beginning with it.
GroupInstancesAreOneRunWitness ==
    /\ Emitted = {1, 2}
    /\ rw_line = B(<<"3","5","=","8","|","4","5","3","=","3","|","4","4","7","=","e","|",
                     "4","4","8","=","a","|","4","4","8","=","b">>)
    /\ GroupList(1, 453) = << [type |-> "MAP", entries |-> << <<447, B(<<"e">>)>> >>],
                              [type |-> "MAP", entries |-> << <<448, B(<<"a">>)>> >>],
                              [type |-> "MAP", entries |-> << <<448, B(<<"b">>)>> >>] >>

----------------------------------------------------------------------------
(* The count a group is scanned with *)

MaxDeclaredSegments == 4

\* The count tag 453 with a count followed by a letter, a plain count, a count
\* after a space, no number, and a number that does not fit an int; the hot
\* tag 58, which the dictionary declares as a count tag; member tags.
DeclaredSegments ==
    { B(<<"4","5","3","=","2","x">>), B(<<"4","5","3","=","1">>),
      B(<<"4","5","3","="," ","2">>), B(<<"4","5","3","=","x">>),
      B(<<"4","5","3","=","4","2","9","4","9","6","7","2","9","7">>),
      B(<<"5","8","=","1">>), B(<<"4","4","8","=","a">>), B(<<"4","4","7","=","e">>) }

DeclaredLines(d) ==
    {JoinBy(<<B(<<"3","5","=","8">>)>> \o segs, d) :
         segs \in SeqsUpTo(DeclaredSegments, MaxDeclaredSegments)}

DeclaredInit ==
    /\ ovf = "wrap"
    /\ TokIdle
    /\ FrIdle
    /\ ScanIdle
    /\ SideIdle
    /\ rw_bind = BindOf(PIPE, <<>>)
    /\ rw_line \in DeclaredLines(PIPE)
    /\ rw_gstates = <<ReadFixInitGlobal(<<>>, <<20>>), ReadFixInitGlobal(<<0>>, <<0, 19, 20>>)>>
    /\ rw_rows = <<>>

SpecDeclared == DeclaredInit /\ [][RowNext]_vars

\* The value of the last occurrence of k in the ordered sequence of row i.
LastCountValue(i, k) ==
    Ordered(i)[Max({p \in 1..Len(Ordered(i)) : Ordered(i)[p][1] = k})][2]

\* The runs of member tags after the first occurrence of k.
RunsAfter(i, k) == RunsOf(MemberStretch(i, k), Declared(i)[k].field_tags[1])

\* The group of k in row i is scanned with the count given by value: no
\* group when the value begins with no integer or with one outside 1..100,
\* else the first N runs after the count tag, N being the integer the value
\* begins with, or all the runs when there are fewer.
ScannedWithCount(i, k, value, runs) ==
    IF CountUnusable(value) \/ runs = <<>> THEN ~HasGroup(i, k)
    ELSE /\ HasGroup(i, k)
         /\ \E N \in 1..MAX_GROUP_COUNT :
               /\ BeginsWithCount(value, N)
               /\ GroupList(i, k) = [j \in 1..Min({N, Len(runs)}) |->
                                        [type |-> "MAP", entries |-> runs[j]]]

\* C30 as stated: every declared group with members whose count tag is in
\* the message is scanned with the count its last occurrence gives.
CountIsLeadingIntegerOfLastValue ==
    \A i \in Emitted : \A k \in DOMAIN Declared(i) :
        ( /\ Declared(i)[k].field_tags # <<>>
          /\ \E p \in 1..Len(Ordered(i)) : Ordered(i)[p][1] = k )
        => ScannedWithCount(i, k, LastCountValue(i, k), RunsAfter(i, k))

\* C30: every declared group with members whose count tag is in the message
\* and is not a hot tag is scanned with the count its last occurrence gives.
CountIsLeadingIntegerOfLastOverflowValue ==
    \A i \in Emitted : \A k \in DOMAIN Declared(i) :
        ( /\ Declared(i)[k].field_tags # <<>>
          /\ ~IsHotTag(k)
          /\ \E p \in 1..Len(Ordered(i)) : Ordered(i)[p][1] = k )
        => /\ k \in DOMAIN Overflow(i)
           /\ Overflow(i)[k] = LastCountValue(i, k)
           /\ ScannedWithCount(i, k, LastCountValue(i, k), RunsAfter(i, k))

\* 453=1|448=a|448=a|453=2x: the count is the 2 that the last value 2x begins
\* with, and the two runs after the first 453 are both in the group.
CountIsLeadingIntegerOfLastOverflowValueWitness ==
    /\ Emitted = {1, 2}
    /\ rw_line = B(<<"3","5","=","8","|","4","5","3","=","1","|","4","4","8","=","a","|",
                     "4","4","8","=","a","|","4","5","3","=","2","x">>)
    /\ Overflow(1)[453] = B(<<"2","x">>)
    /\ GroupList(1, 453) = << [type |-> "MAP", entries |-> << <<448, B(<<"a">>)>> >>],
                              [type |-> "MAP", entries |-> << <<448, B(<<"a">>)>> >>] >>

====
